---- MODULE Spec2Model ----
(***************************************************************************)
(* The Alteryx workflow migration tool: macro resolution, ingestion of a   *)
(* workflow document, and the layer classification the generators read.    *)
(*                                                                         *)
(* Macro resolution (Spec, BatchSpec, ChurnSpec).  State: a file system    *)
(* (which macro files exist, and whether each parses as a workflow         *)
(* document), the parsed workflows (AlteryxWorkflow), one MacroResolver     *)
(* (search_directories, resolved_paths, skip_macros, skip_all,             *)
(* interactive) and the position of the resolver: idle, or blocked in      *)
(* input() inside _prompt_for_macro.                                       *)
(*                                                                         *)
(* Ingestion (ParseSpec).  State: an XML document and what                 *)
(* AlteryxParser.parse returned or raised on it.                           *)
(*                                                                         *)
(* Layer classification (AnalyzeSpec).  State: a workflow graph and the    *)
(* three node lists DBTGenerator._generate_workflow_models takes from      *)
(* suggest_medallion_mapping.                                              *)
(*                                                                         *)
(* Documentation order (OrderSpec).  State: a workflow graph, possibly     *)
(* cyclic, and the numbered step lines _generate_workflow_doc writes from  *)
(* get_ordered_transformations, or the exception it lets through.          *)
(*                                                                         *)
(* Macro inventory (InventorySpec).  State: one MacroInventory (macros,    *)
(* usage) under a sequence of add_macro calls.                             *)
(*                                                                         *)
(* Repeated references (RepeatSpec).  The resolver of Spec on a workflow   *)
(* whose two macro tools may name the same macro.                          *)
(*                                                                         *)
(* DBT models (DbtSpec).  State: a workflow graph and the models           *)
(* DBTGenerator._generate_workflow_models writes, each with the ref()      *)
(* names its SQL uses.                                                     *)
(*                                                                         *)
(* Names (SanitizeSpec).  State: a name and what the two _sanitize_name    *)
(* methods return on it.                                                   *)
(*                                                                         *)
(* Paths are sequences of path components; every path of the model is      *)
(* absolute, a macro reference is a path that may be relative.             *)
(***************************************************************************)
EXTENDS Integers, Sequences, FiniteSets, TLC

(***************************************************************************)
(* Bounds                                                                  *)
(***************************************************************************)
\* number of macro files present besides the two documents themselves
MaxFiles == 2
\* number of resolve_macros calls in one run
MaxCalls == 2

(***************************************************************************)
(* Paths, references, documents                                            *)
(***************************************************************************)
Cwd == <<"cwd">>
Proj == <<"proj">>
Wf1 == <<"proj", "wf1">>
Wf2 == <<"proj", "wf2">>
Ext == <<"ext">>
ExtSub == <<"ext", "sub">>
Alt == <<"alt">>

NoPath == << >>

Docs == {"W1", "W2"}
DocPath == [w \in Docs |-> IF w = "W1" THEN Wf1 \o <<"A.yxmc">> ELSE Wf2 \o <<"W2.yxmd">>]

\* a macro reference string: Path(macro_ref) is absolute or relative
RefB == [abs |-> FALSE, parts |-> <<"B.yxmc">>]
RefC == [abs |-> FALSE, parts |-> <<"C.yxmc">>]
RefLibB == [abs |-> FALSE, parts |-> <<"lib", "B.yxmc">>]
RefAbsB == [abs |-> TRUE, parts |-> <<"ext", "B.yxmc">>]
RefA == [abs |-> FALSE, parts |-> <<"A.yxmc">>]
NoRef == [abs |-> FALSE, parts |-> << >>]
Refs == {RefB, RefC, RefLibB, RefAbsB}

\* places where a macro file may lie
CandidateFiles ==
    { Wf1 \o <<"B.yxmc">>, Wf1 \o <<"lib", "B.yxmc">>,
      Wf1 \o <<"macros", "B.yxmc">>, Wf1 \o <<"Macros", "B.yxmc">>,
      Proj \o <<"B.yxmc">>, Proj \o <<"macros", "B.yxmc">>,
      Ext \o <<"B.yxmc">>, ExtSub \o <<"B.yxmc">>, Alt \o <<"B.yxmc">>,
      Wf1 \o <<"C.yxmc">> }

\* the places where the file may be one that does not parse as a workflow
BadCandidates ==
    { Wf1 \o <<"B.yxmc">>, Wf1 \o <<"lib", "B.yxmc">>, Wf1 \o <<"C.yxmc">> }

\* directories that exist whatever the files are
BaseDirs == { << >>, Cwd, Proj, Wf1, Wf2, Ext, ExtSub, Alt }

\* directories a caller may configure, or a user may enter at the prompt
SearchDirChoices == { Ext }
\* answers a user may give to "Enter directory path", one of them no directory
PromptDirChoices == { Ext, Alt, <<"nowhere">> }
\* answers a user may give to "Enter full path to macro file"
PromptPathChoices == { Ext \o <<"B.yxmc">>, Ext }

VARIABLES
    files,              \* file path -> "ok" (parses as a workflow) or "bad"
    workflows,          \* document -> AlteryxWorkflow
    search_directories, \* MacroResolver.search_directories
    resolved_paths,     \* MacroResolver.resolved_paths, NoPath where no key
    skip_macros,        \* MacroResolver.skip_macros
    skip_all,           \* MacroResolver.skip_all
    interactive,        \* MacroResolver.interactive
    pc,                 \* "idle", or "prompt": blocked in input()
    cur,                \* the running resolve_macros call
    report,             \* document -> macro_infos returned by its last call
    parse_count,        \* path -> number of _parse_macro calls on it
    search_count,       \* reference -> searches _resolve_macro made for it
    ncalls,             \* document -> resolve_macros calls started on it
    force_skip,         \* the skip set the caller constructed the resolver with
    skip_answered,      \* references answered [3] or [4] at the prompt
    eof_skipped,        \* references whose prompt hit end of input
    document,           \* the XML document handed to AlteryxParser.parse
    parsed,             \* what parse returned or raised on it
    graph,              \* the AlteryxWorkflow handed to TransformationAnalyzer
    medallion,          \* what suggest_medallion_mapping returned on it
    steps,              \* the transformation steps the documentation lists
    inventory,          \* the MacroInventory of a run
    dbt,                \* the DBTGenerator of a run
    sanitized           \* a name and what the _sanitize_name methods make of it

\* the state of the parser and of the analyzer
ingestVars == << document, parsed >>
analyzerVars == << graph, medallion >>
generatorVars == << steps, inventory, dbt, sanitized >>

vars == << files, workflows, search_directories, resolved_paths, skip_macros,
           skip_all, interactive, pc, cur, report, parse_count, search_count,
           ncalls, force_skip, skip_answered, eof_skipped, document, parsed,
           graph, medallion, steps, inventory, dbt, sanitized >>

\* no document read yet, no parse made yet, no graph analysed yet
NoDocument == [wellformed |-> FALSE, has_nodes |-> FALSE, nodes |-> << >>,
               has_connections |-> FALSE, connections |-> << >>]
NotParsed == [status |-> "none", nodes |-> << >>, connections |-> << >>]
NoGraph == [nodes |-> << >>, connections |-> << >>]
NotAnalyzed == [status |-> "none"]
\* no generator was run
NotOrdered == [status |-> "none"]
NoInventory == [status |-> "none"]
NoDbt == [status |-> "none"]
NotSanitized == [status |-> "none"]
NoGenerator ==
    /\ steps = NotOrdered
    /\ inventory = NoInventory
    /\ dbt = NoDbt
    /\ sanitized = NotSanitized

(***************************************************************************)
(* pathlib                                                                 *)
(***************************************************************************)
\* Path(p).name
Name(parts) == parts[Len(parts)]

\* Path(p).parent
Parent(p) == SubSeq(p, 1, Len(p) - 1)

\* d / ref: an absolute right operand replaces the left one
Join(d, ref) == IF ref.abs THEN ref.parts ELSE d \o ref.parts

\* Path(ref).resolve(): a relative path is taken from the working directory
Resolve(ref) == Join(Cwd, ref)

IsPrefix(d, p) == Len(d) <= Len(p) /\ SubSeq(p, 1, Len(d)) = d

\* Path.is_file()
IsFile(fs, p) == p \in DOMAIN fs

\* Path.is_dir(): a base directory, or a directory some file lies in
IsDir(fs, p) ==
    \/ p \in BaseDirs
    \/ \E f \in DOMAIN fs : Len(p) < Len(f) /\ IsPrefix(p, f)

\* Path.exists()
Exists(fs, p) == IsFile(fs, p) \/ IsDir(fs, p)

\* the order in which search_dir.glob("**/") lists directories: the directory
\* itself, then its sub-directories
GlobOrder == << Ext, ExtSub, Alt >>

Glob(fs, d) == SelectSeq(GlobOrder, LAMBDA x : IsDir(fs, x) /\ IsPrefix(d, x))

(***************************************************************************)
(* AlteryxNode, AlteryxWorkflow, MacroInfo                                 *)
(***************************************************************************)
Tool(id, plugin_name, annotation) ==
    [tool_id |-> id, plugin_name |-> plugin_name, annotation |-> annotation,
     is_macro |-> FALSE, macro_path |-> NoRef]

\* a node without Plugin attribute; macro_path is NoRef when no path was found
MacroNode(id, ref) ==
    [tool_id |-> id, plugin_name |-> "Macro", annotation |-> "",
     is_macro |-> TRUE, macro_path |-> ref]

\* parse() lines 56-59: the macro references of a workflow, in node order
RECURSIVE MacrosUsed(_)
MacrosUsed(nodes) ==
    IF nodes = << >> THEN << >>
    ELSE LET node == Head(nodes) IN
         (IF node.is_macro /\ node.macro_path # NoRef
            THEN << node.macro_path >> ELSE << >>)
         \o MacrosUsed(Tail(nodes))

\* the nodes a macro file holds, by file name
MacroFileNodes(name) ==
    IF name = "B.yxmc"
      THEN << Tool(1, "Macro Input", ""), Tool(2, "Filter", ""),
              MacroNode(3, RefA), Tool(4, "Macro Output", "result") >>
      ELSE << Tool(1, "Macro Input", "rows"), Tool(2, "Macro Output", "") >>

NoWorkflow == [parsed |-> FALSE, file_path |-> NoPath, nodes |-> << >>,
               macros_used |-> << >>]

\* AlteryxParser.parse on a macro file: fails (None) unless the path is a
\* file with a workflow suffix holding well-formed XML ("ok")
ParsedFile(fs, path) ==
    IF IsFile(fs, path) /\ fs[path] = "ok"
      THEN [parsed |-> TRUE, file_path |-> path,
            nodes |-> MacroFileNodes(Name(path)),
            macros_used |-> MacrosUsed(MacroFileNodes(Name(path)))]
      ELSE NoWorkflow

\* _parse_macro: parser.parse, every exception turned into None
ParseMacro(fs, path) == ParsedFile(fs, path)

\* MacroInfo(name=Path(macro_ref).name, file_path=macro_ref)
NewMacroInfo(ref) ==
    [name |-> Name(ref.parts), file_path |-> ref, found |-> FALSE,
     resolved_path |-> NoPath, workflow |-> NoWorkflow,
     inputs |-> << >>, outputs |-> << >>]

\* node.annotation or f"Input_{node.tool_id}"
PortName(node, prefix) ==
    IF node.annotation # "" THEN [label |-> node.annotation, id |-> 0]
    ELSE [label |-> prefix, id |-> node.tool_id]

RECURSIVE Ports(_, _, _)
Ports(nodes, plugin_name, prefix) ==
    IF nodes = << >> THEN << >>
    ELSE (IF Head(nodes).plugin_name = plugin_name
            THEN << PortName(Head(nodes), prefix) >> ELSE << >>)
         \o Ports(Tail(nodes), plugin_name, prefix)

\* an empty macro_infos dict
EmptyInfos == [r \in {} |-> 0]

NoInfo ==
    [name |-> "", file_path |-> NoRef, found |-> FALSE,
     resolved_path |-> NoPath, workflow |-> NoWorkflow,
     inputs |-> << >>, outputs |-> << >>]

(***************************************************************************)
(* MacroResolver                                                           *)
(***************************************************************************)
\* the resolver's fields, and the two probes, as one value
ResolverState ==
    [sd |-> search_directories, rp |-> resolved_paths, skip |-> skip_macros,
     skip_all |-> skip_all, pcnt |-> parse_count, scnt |-> search_count]

\* add_search_directory
AddDirectory(sd, directory) ==
    IF Exists(files, directory) /\ IsDir(files, directory)
      THEN IF \E i \in 1..Len(sd) : sd[i] = directory
             THEN sd ELSE Append(sd, directory)
      ELSE sd

\* _search_for_macro, lines 129-134: each search directory, then each
\* directory of its subtree
RECURSIVE SearchDirLocations(_, _)
SearchDirLocations(sd, macro_name) ==
    IF sd = << >> THEN << >>
    ELSE LET search_dir == Head(sd)
             subdirs == Glob(files, search_dir)
         IN  << search_dir \o << macro_name >> >>
             \o [i \in 1..Len(subdirs) |-> subdirs[i] \o << macro_name >>]
             \o SearchDirLocations(Tail(sd), macro_name)

\* _search_for_macro, lines 108-134: the locations in priority order
\* a search that looks into the parent directory before the macros/
\* sub-directories
SearchLocationsParentFirst(sd, macro_ref, file_path) ==
    LET macro_name == Name(macro_ref.parts)
        workflow_dir == Parent(file_path)
    IN  << Resolve(macro_ref),
           Join(workflow_dir, macro_ref),
           workflow_dir \o << macro_name >>,
           Parent(workflow_dir) \o << macro_name >>,
           workflow_dir \o << "macros", macro_name >>,
           workflow_dir \o << "Macros", macro_name >>,
           Parent(workflow_dir) \o << "macros", macro_name >> >>
        \o SearchDirLocations(sd, macro_name)

SearchLocationsFrom(sd, macro_ref, file_path) ==
    LET macro_name == Name(macro_ref.parts)
        workflow_dir == Parent(file_path)
    IN  << Resolve(macro_ref),
           Join(workflow_dir, macro_ref),
           workflow_dir \o << macro_name >>,
           workflow_dir \o << "macros", macro_name >>,
           workflow_dir \o << "Macros", macro_name >>,
           Parent(workflow_dir) \o << macro_name >>,
           Parent(workflow_dir) \o << "macros", macro_name >> >>
        \o SearchDirLocations(sd, macro_name)

\* a search that passes over a file that does not parse
RECURSIVE FirstParseableFile(_)
FirstParseableFile(locations) ==
    IF locations = << >> THEN NoPath
    ELSE IF IsFile(files, Head(locations)) /\ files[Head(locations)] = "ok"
           THEN Head(locations)
           ELSE FirstParseableFile(Tail(locations))

\* _search_for_macro, lines 136-141: the first location that is a file
RECURSIVE FirstFile(_)
FirstFile(locations) ==
    IF locations = << >> THEN NoPath
    ELSE IF Exists(files, Head(locations)) /\ IsFile(files, Head(locations))
           THEN Head(locations)
           ELSE FirstFile(Tail(locations))

SearchLocations(sd, macro_ref, w) ==
    SearchLocationsFrom(sd, macro_ref, workflows[w].file_path)

SearchForMacro(sd, macro_ref, w) == FirstFile(SearchLocations(sd, macro_ref, w))

Bump(counter, key) == [counter EXCEPT ![key] = @ + 1]

\* lines 93-98: the macro's inputs and outputs, when the file parsed
WithPorts(info) ==
    IF info.workflow.parsed
      THEN [info EXCEPT !.inputs = Ports(info.workflow.nodes, "Macro Input", "Input_"),
                        !.outputs = Ports(info.workflow.nodes, "Macro Output", "Output_")]
      ELSE info

\* a resolver that keeps the parsed macro with the cached path and does not
\* parse the file on a cache hit
CacheHitNoParse(s, macro_ref) ==
    LET resolved == s.rp[macro_ref] IN
    [s |-> s,
     info |-> [NewMacroInfo(macro_ref) EXCEPT !.found = TRUE,
                                             !.resolved_path = resolved,
                                             !.workflow = ParseMacro(files, resolved)],
     prompt |-> FALSE]

\* lines 73-79: a cached path that still exists is reused: no search, but
\* the file is parsed again
CacheHit(s, macro_ref) ==
    LET resolved == s.rp[macro_ref] IN
    [s |-> [s EXCEPT !.pcnt = Bump(@, resolved)],
     info |-> [NewMacroInfo(macro_ref) EXCEPT !.found = TRUE,
                                             !.resolved_path = resolved,
                                             !.workflow = ParseMacro(files, resolved)],
     prompt |-> FALSE]

\* the counter with one more call for every path of the set
RECURSIVE BumpAll(_, _)
BumpAll(counter, keys) ==
    IF keys = {} THEN counter
    ELSE LET key == CHOOSE k \in keys : TRUE
         IN  BumpAll(Bump(counter, key), keys \ {key})

\* a resolver that follows the references of the macro it parsed: each
\* of them is searched from the macro's directory and parsed in turn
SearchHitNested(s, macro_ref, resolved_path) ==
    LET macro == ParseMacro(files, resolved_path)
        nested == { FirstFile(SearchLocationsFrom(s.sd, macro.macros_used[i],
                                                  resolved_path)) :
                    i \in 1..Len(macro.macros_used) } \ {NoPath}
    IN  [s |-> [s EXCEPT !.rp[macro_ref] = resolved_path,
                         !.pcnt = BumpAll(Bump(@, resolved_path), nested)],
         info |-> WithPorts([NewMacroInfo(macro_ref) EXCEPT
                                !.found = TRUE,
                                !.resolved_path = resolved_path,
                                !.workflow = macro]),
         prompt |-> FALSE]

\* a search hit that enters the path under every reference of the same name
SearchHitByName(s, macro_ref, resolved_path) ==
    [s |-> [s EXCEPT !.rp = [r \in DOMAIN s.rp |->
                                IF Name(r.parts) = Name(macro_ref.parts)
                                  THEN resolved_path ELSE s.rp[r]],
                     !.pcnt = Bump(@, resolved_path)],
     info |-> WithPorts([NewMacroInfo(macro_ref) EXCEPT
                            !.found = TRUE,
                            !.resolved_path = resolved_path,
                            !.workflow = ParseMacro(files, resolved_path)]),
     prompt |-> FALSE]

\* lines 84-98: the search found a file: found, cached, parsed
SearchHit(s, macro_ref, resolved_path) ==
    [s |-> [s EXCEPT !.rp[macro_ref] = resolved_path,
                     !.pcnt = Bump(@, resolved_path)],
     info |-> WithPorts([NewMacroInfo(macro_ref) EXCEPT
                            !.found = TRUE,
                            !.resolved_path = resolved_path,
                            !.workflow = ParseMacro(files, resolved_path)]),
     prompt |-> FALSE]

\* a resolver that prompts whenever it is interactive
WantsPromptWhenInteractive(s) == interactive

\* line 100: whether a reference that was not found is prompted for
WantsPrompt(s) == ~s.skip_all /\ interactive

\* a resolver that never looks into resolved_paths
ResolveMacroNoCache(s, macro_ref, w) ==
    LET s1 == [s EXCEPT !.scnt = Bump(@, macro_ref)]
        resolved_path == SearchForMacro(s.sd, macro_ref, w)
    IN  IF resolved_path # NoPath
          THEN SearchHit(s1, macro_ref, resolved_path)
          ELSE [s |-> s1, info |-> NewMacroInfo(macro_ref),
                prompt |-> WantsPrompt(s1)]

\* a resolver that searches first and falls back on resolved_paths
ResolveMacroSearchFirst(s, macro_ref, w) ==
    LET s1 == [s EXCEPT !.scnt = Bump(@, macro_ref)]
        resolved_path == SearchForMacro(s.sd, macro_ref, w)
    IN  IF resolved_path # NoPath
          THEN SearchHit(s1, macro_ref, resolved_path)
          ELSE IF s.rp[macro_ref] # NoPath /\ Exists(files, s.rp[macro_ref])
                 THEN CacheHit(s1, macro_ref)
                 ELSE [s |-> s1, info |-> NewMacroInfo(macro_ref),
                       prompt |-> WantsPrompt(s1)]

\* _resolve_macro up to its return, or up to the first input() of the prompt
ResolveMacro(s, macro_ref, w) ==
    IF s.rp[macro_ref] # NoPath /\ Exists(files, s.rp[macro_ref])
      THEN CacheHit(s, macro_ref)
      ELSE LET s1 == [s EXCEPT !.scnt = Bump(@, macro_ref)]
               resolved_path == SearchForMacro(s.sd, macro_ref, w)
           IN  IF resolved_path # NoPath
                 THEN SearchHit(s1, macro_ref, resolved_path)
                 ELSE [s |-> s1, info |-> NewMacroInfo(macro_ref),
                       prompt |-> WantsPrompt(s1)]

\* a resolve_macros that records the MacroInfo and forgets the missing list
RecordedFoundOnly(call, macro_ref, macro_info) ==
    [call EXCEPT !.infos = (macro_ref :> macro_info) @@ @]

\* a resolve_macros that takes a reference it found out of the missing list
RecordedClearsMissing(call, macro_ref, macro_info) ==
    [call EXCEPT !.infos = (macro_ref :> macro_info) @@ @,
                 !.missing = IF macro_info.found
                               THEN SelectSeq(@, LAMBDA x : x # macro_ref)
                               ELSE Append(@, macro_ref)]

\* resolve_macros, lines 56-59: the MacroInfo is recorded, and a reference
\* that was not found is appended to the missing list
Recorded(call, macro_ref, macro_info) ==
    [call EXCEPT !.infos = (macro_ref :> macro_info) @@ @,
                 !.missing = IF macro_info.found THEN @ ELSE Append(@, macro_ref)]

\* a resolve_macros that passes over a reference of the skip set
SkippedUnrecorded(call, macro_path) == call

\* resolve_macros, lines 51-53: a reference of the skip set is appended to
\* the missing list and not resolved
Skipped(call, macro_path) == [call EXCEPT !.missing = Append(@, macro_path)]

\* resolve_macros, the loop from its i-th reference on, up to its return
\* (pc "idle") or up to the first input() of a prompt (pc "prompt")
RECURSIVE ResolveLoop(_, _, _, _)
ResolveLoop(s, call, w, i) ==
    LET used == workflows[w].macros_used IN
    IF i > Len(used)
      THEN [s |-> s, call |-> call, pc |-> "idle", idx |-> 0, info |-> NoInfo]
      ELSE LET macro_path == used[i] IN
           IF macro_path \in s.skip
             THEN ResolveLoop(s, Skipped(call, macro_path), w, i + 1)
             ELSE LET r == ResolveMacro(s, macro_path, w) IN
                  IF r.prompt
                    THEN [s |-> r.s, call |-> call, pc |-> "prompt", idx |-> i,
                          info |-> r.info]
                    ELSE ResolveLoop(r.s, Recorded(call, macro_path, r.info),
                                     w, i + 1)

(***************************************************************************)
(* _prompt_for_macro: one answer read by input().  "returned" tells whether *)
(* the prompt returned or went round its loop to read the next answer.     *)
(***************************************************************************)
\* choice "1", lines 165-180: any existing path is taken, file or not
PromptPath(s, macro_ref, macro_info, path) ==
    IF Exists(files, path)
      THEN [s |-> [s EXCEPT !.rp[macro_ref] = path, !.pcnt = Bump(@, path)],
            info |-> [macro_info EXCEPT !.found = TRUE,
                                        !.resolved_path = path,
                                        !.workflow = ParseMacro(files, path)],
            returned |-> TRUE]
      ELSE [s |-> s, info |-> macro_info, returned |-> FALSE]

\* choice "2", lines 182-205: the directory is added and the search repeated
PromptDirectory(s, macro_ref, w, macro_info, directory) ==
    IF Exists(files, directory) /\ IsDir(files, directory)
      THEN LET s1 == [s EXCEPT !.sd = AddDirectory(@, directory)]
               resolved == SearchForMacro(s1.sd, macro_ref, w)
           IN  IF resolved # NoPath
                 THEN [s |-> [s1 EXCEPT !.rp[macro_ref] = resolved,
                                        !.pcnt = Bump(@, resolved)],
                       info |-> [macro_info EXCEPT
                                    !.found = TRUE,
                                    !.resolved_path = resolved,
                                    !.workflow = ParseMacro(files, resolved)],
                       returned |-> TRUE]
                 ELSE [s |-> s1, info |-> macro_info, returned |-> FALSE]
      ELSE [s |-> s, info |-> macro_info, returned |-> FALSE]

\* choice "3", lines 207-210
PromptSkip(s, macro_ref, macro_info) ==
    [s |-> [s EXCEPT !.skip = @ \cup {macro_ref}],
     info |-> macro_info, returned |-> TRUE]

\* choice "4", lines 212-216
PromptSkipAll(s, macro_ref, macro_info) ==
    [s |-> [s EXCEPT !.skip_all = TRUE, !.skip = @ \cup {macro_ref}],
     info |-> macro_info, returned |-> TRUE]

\* any other choice, lines 218-219
PromptInvalid(s, macro_ref, macro_info) ==
    [s |-> s, info |-> macro_info, returned |-> FALSE]

\* a prompt that treats an interrupt like the end of input
PromptInterruptSkips(s, macro_ref, macro_info) ==
    [s |-> [s EXCEPT !.skip = @ \cup {macro_ref}],
     info |-> macro_info, returned |-> TRUE]

\* KeyboardInterrupt, lines 221-223
PromptInterrupt(s, macro_ref, macro_info) ==
    [s |-> s, info |-> macro_info, returned |-> TRUE]

\* EOFError, lines 224-227
PromptEOF(s, macro_ref, macro_info) ==
    [s |-> [s EXCEPT !.skip = @ \cup {macro_ref}],
     info |-> macro_info, returned |-> TRUE]

(***************************************************************************)
(* Initial state                                                           *)
(***************************************************************************)
\* the node lists of the two documents, as parse returns them
DocShapes1 ==
    { << MacroNode(1, RefB), MacroNode(2, RefC) >>,
      << MacroNode(1, RefC), MacroNode(2, RefB) >>,
      << MacroNode(1, RefLibB), MacroNode(2, NoRef), MacroNode(3, RefAbsB) >> }

DocShapes2 ==
    { << Tool(1, "Input Data", ""), MacroNode(2, RefB) >> }

\* the paths _parse_macro may be called on
ParsePaths == CandidateFiles \cup PromptPathChoices \cup {DocPath[w] : w \in Docs}

NoCall == [w |-> "", idx |-> 0, info |-> NoInfo, infos |-> EmptyInfos]

\* parse(): the AlteryxWorkflow of a document
ParsedWorkflow(path, nodes) ==
    [file_path |-> path, nodes |-> nodes, macros_used |-> MacrosUsed(nodes),
     missing_macros |-> << >>]

InitOf(shapes1, shapes2) ==
    /\ \E S \in SUBSET CandidateFiles :
         /\ Cardinality(S) <= MaxFiles
         /\ \E Bad \in SUBSET (S \cap BadCandidates) :
              files = [p \in S |-> IF p \in Bad THEN "bad" ELSE "ok"]
                      @@ [p \in {DocPath[w] : w \in Docs} |-> "ok"]
    /\ \E n1 \in shapes1, n2 \in shapes2 :
         workflows = [w \in Docs |->
                        ParsedWorkflow(DocPath[w], IF w = "W1" THEN n1 ELSE n2)]
    /\ search_directories \in { << >>, << Alt, Ext >> }
    /\ resolved_paths = [r \in Refs |-> NoPath]
    /\ skip_macros \in { {}, {RefC} }
    /\ force_skip = skip_macros
    /\ skip_all = FALSE
    /\ interactive \in BOOLEAN
    /\ pc = "idle"
    /\ cur = NoCall
    /\ report = [w \in Docs |-> EmptyInfos]
    /\ parse_count = [p \in ParsePaths |-> 0]
    /\ search_count = [r \in Refs |-> 0]
    /\ ncalls = [w \in Docs |-> 0]
    /\ skip_answered = {}
    /\ eof_skipped = {}
    /\ document = NoDocument
    /\ parsed = NotParsed
    /\ graph = NoGraph
    /\ medallion = NotAnalyzed
    /\ NoGenerator

\* the state after the documents were parsed and the resolver constructed
Init == InitOf(DocShapes1, DocShapes2)

(***************************************************************************)
(* Actions                                                                 *)
(***************************************************************************)
\* the resolver's fields after a step of a call
SetResolver(s) ==
    /\ search_directories' = s.sd
    /\ resolved_paths' = s.rp
    /\ skip_macros' = s.skip
    /\ skip_all' = s.skip_all
    /\ parse_count' = s.pcnt
    /\ search_count' = s.scnt

\* the nodes with the nodes of every parsed macro of infos appended under
\* fresh identifiers
RECURSIVE Spliced(_, _, _)
Spliced(nodes, infos, refs) ==
    IF refs = {} THEN nodes
    ELSE LET ref == CHOOSE r \in refs : TRUE
             sub == infos[ref].workflow.nodes
         IN  Spliced(nodes \o [i \in 1..Len(sub) |->
                                  [sub[i] EXCEPT !.tool_id = Len(nodes) + 10 + i]],
                     infos, refs \ {ref})

\* a resolve_macros that merges the parsed macros into the host workflow
CommitSpliced(k, w) ==
    /\ SetResolver(k.s)
    /\ workflows' = [workflows EXCEPT
                        ![w].missing_macros = k.call.missing,
                        ![w].nodes = IF k.pc = "idle"
                                       THEN Spliced(@, k.call.infos, DOMAIN k.call.infos)
                                       ELSE @]
    /\ pc' = k.pc
    /\ cur' = IF k.pc = "prompt"
                THEN [w |-> w, idx |-> k.idx, info |-> k.info, infos |-> k.call.infos]
                ELSE NoCall
    /\ report' = IF k.pc = "idle" THEN [report EXCEPT ![w] = k.call.infos] ELSE report

\* the state in which ResolveLoop stopped: the call returned its macro_infos,
\* or waits in input()
Commit(k, w) ==
    /\ SetResolver(k.s)
    /\ workflows' = [workflows EXCEPT ![w].missing_macros = k.call.missing]
    /\ pc' = k.pc
    /\ cur' = IF k.pc = "prompt"
                THEN [w |-> w, idx |-> k.idx, info |-> k.info, infos |-> k.call.infos]
                ELSE NoCall
    /\ report' = IF k.pc = "idle" THEN [report EXCEPT ![w] = k.call.infos] ELSE report

\* resolver.resolve_macros(workflow)
ResolveMacros(w) ==
    /\ pc = "idle"
    /\ ncalls["W1"] + ncalls["W2"] < MaxCalls
    /\ ncalls' = [ncalls EXCEPT ![w] = @ + 1]
    /\ Commit(ResolveLoop(ResolverState,
                          [infos |-> EmptyInfos, missing |-> workflows[w].missing_macros],
                          w, 1), w)
    /\ UNCHANGED << files, interactive, force_skip, skip_answered, eof_skipped >>
    /\ UNCHANGED << ingestVars, analyzerVars, generatorVars >>

\* the reference the prompt asks about
CurRef == workflows[cur.w].macros_used[cur.idx]

\* the prompt read an answer: it returns, and resolve_macros goes on with
\* the next reference, or it asks again
Answered(r) ==
    /\ IF r.returned
         THEN Commit(ResolveLoop(r.s,
                                 Recorded([infos |-> cur.infos,
                                           missing |-> workflows[cur.w].missing_macros],
                                          CurRef, r.info),
                                 cur.w, cur.idx + 1), cur.w)
         ELSE /\ SetResolver(r.s)
              /\ UNCHANGED << workflows, pc, cur, report >>
    /\ UNCHANGED << files, interactive, force_skip, ncalls >>
    /\ UNCHANGED << ingestVars, analyzerVars, generatorVars >>

AnswerPath(path) ==
    /\ pc = "prompt"
    /\ Answered(PromptPath(ResolverState, CurRef, cur.info, path))
    /\ UNCHANGED << skip_answered, eof_skipped >>

AnswerDirectory(directory) ==
    /\ pc = "prompt"
    /\ Answered(PromptDirectory(ResolverState, CurRef, cur.w, cur.info, directory))
    /\ UNCHANGED << skip_answered, eof_skipped >>

AnswerSkip ==
    /\ pc = "prompt"
    /\ Answered(PromptSkip(ResolverState, CurRef, cur.info))
    /\ skip_answered' = skip_answered \cup {CurRef}
    /\ UNCHANGED eof_skipped

AnswerSkipAll ==
    /\ pc = "prompt"
    /\ Answered(PromptSkipAll(ResolverState, CurRef, cur.info))
    /\ skip_answered' = skip_answered \cup {CurRef}
    /\ UNCHANGED eof_skipped

AnswerInvalid ==
    /\ pc = "prompt"
    /\ Answered(PromptInvalid(ResolverState, CurRef, cur.info))
    /\ UNCHANGED << skip_answered, eof_skipped >>

AnswerInterrupt ==
    /\ pc = "prompt"
    /\ Answered(PromptInterrupt(ResolverState, CurRef, cur.info))
    /\ UNCHANGED << skip_answered, eof_skipped >>

AnswerEOF ==
    /\ pc = "prompt"
    /\ Answered(PromptEOF(ResolverState, CurRef, cur.info))
    /\ eof_skipped' = eof_skipped \cup {CurRef}
    /\ UNCHANGED skip_answered

\* resolver.add_search_directory(directory), called between two resolutions
AddSearchDirectory(directory) ==
    /\ pc = "idle"
    /\ search_directories' = AddDirectory(search_directories, directory)
    /\ UNCHANGED << files, workflows, resolved_paths, skip_macros, skip_all,
                    interactive, pc, cur, report, parse_count, search_count,
                    ncalls, force_skip, skip_answered, eof_skipped >>
    /\ UNCHANGED << ingestVars, analyzerVars, generatorVars >>

Next ==
    \/ \E w \in Docs : ResolveMacros(w)
    \/ \E path \in PromptPathChoices : AnswerPath(path)
    \/ \E directory \in PromptDirChoices : AnswerDirectory(directory)
    \/ AnswerSkip
    \/ AnswerSkipAll
    \/ AnswerInvalid
    \/ AnswerInterrupt
    \/ AnswerEOF
    \/ \E directory \in SearchDirChoices : AddSearchDirectory(directory)

Spec == Init /\ [][Next]_vars

(***************************************************************************)
(* Claims                                                                  *)
(***************************************************************************)
InSeq(x, seq) == \E i \in 1..Len(seq) : seq[i] = x

\* the step is a resolve_macros(w) call that ran to its return without a prompt
CallReturned(w) == pc = "idle" /\ pc' = "idle" /\ ncalls'[w] = ncalls[w] + 1

\* the macro_info the last call on w returned for ref was found
Found(w, ref) == ref \in DOMAIN report[w] /\ report[w][ref].found

\* C1, as stated: when both documents were resolved once and both found the
\* same reference at the same path, that file was parsed once.
C1_ParsedOnce ==
    \A ref \in Refs :
        (/\ pc = "idle"
         /\ \A w \in Docs : ncalls[w] = 1 /\ Found(w, ref)
         /\ report["W1"][ref].resolved_path = report["W2"][ref].resolved_path)
        => parse_count[report["W1"][ref].resolved_path] = 1

\* C1, amended: a resolution of a reference whose path is cached (a second
\* document's, or the same document's again) takes the cached path without
\* searching, and parses the file again.
C1_CachedPathReparsed ==
    [][\A w \in Docs, ref \in Refs :
         (/\ CallReturned(w)
          /\ InSeq(ref, workflows[w].macros_used)
          /\ ref \notin skip_macros
          /\ resolved_paths[ref] # NoPath)
         => /\ search_count'[ref] = search_count[ref]
            /\ parse_count'[resolved_paths[ref]] > parse_count[resolved_paths[ref]]
            /\ report'[w][ref].found
            /\ report'[w][ref].resolved_path = resolved_paths[ref]]_vars

\* both documents found B.yxmc at one path: one search, two parses
C1_Witness ==
    /\ pc = "idle"
    /\ \A w \in Docs : ncalls[w] = 1 /\ Found(w, RefB)
    /\ report["W1"][RefB].resolved_path = report["W2"][RefB].resolved_path
    /\ search_count[RefB] = 1
    /\ parse_count[report["W1"][RefB].resolved_path] = 2

\* the seven locations of _search_for_macro that do not depend on the
\* search directories
DocLocations(ref, w) == SearchLocations(<< >>, ref, w)

\* C2, as stated: a reference is never reported found without a parsed
\* sub-graph.
C2_FoundIsParsed ==
    \A w \in Docs : \A ref \in DOMAIN report[w] :
        report[w][ref].found => report[w][ref].workflow.parsed

\* C2, amended: a file that exists at a candidate location satisfies the
\* reference whether it parses or not: a resolved reference whose document
\* has a file at one of its own locations is reported found, and a found
\* reference carries a sub-graph exactly when its path is a file that parses.
C2_ExistenceSatisfies ==
    \A w \in Docs : \A ref \in DOMAIN report[w] :
        LET info == report[w][ref] IN
        /\ (\E i \in 1..Len(DocLocations(ref, w)) :
                IsFile(files, DocLocations(ref, w)[i])) => info.found
        /\ info.found =>
             /\ Exists(files, info.resolved_path)
             /\ info.workflow.parsed <=>
                  (IsFile(files, info.resolved_path) /\ files[info.resolved_path] = "ok")

\* found at a file that does not parse, while a later candidate parses
C2_Witness ==
    \E ref \in DOMAIN report["W1"] :
        LET info == report["W1"][ref]
            locs == DocLocations(ref, "W1") IN
        /\ info.found /\ ~info.workflow.parsed
        /\ \E i, j \in 1..Len(locs) :
             /\ i < j
             /\ locs[i] = info.resolved_path
             /\ IsFile(files, locs[j]) /\ files[locs[j]] = "ok"

\* the candidate order the claim states: exact path, relative to the
\* document's directory, its macros/ sub-directory, the search directories
ClaimedLocations(sd, ref, w) ==
    LET macro_name == Name(ref.parts)
        workflow_dir == Parent(workflows[w].file_path)
    IN  << Resolve(ref), Join(workflow_dir, ref),
           workflow_dir \o << "macros", macro_name >> >>
        \o SearchDirLocations(sd, macro_name)

\* the candidate order of the amended claim
AmendedLocations(sd, ref, w) ==
    LET macro_name == Name(ref.parts)
        workflow_dir == Parent(workflows[w].file_path)
    IN  << Resolve(ref), Join(workflow_dir, ref),
           workflow_dir \o << macro_name >>,
           workflow_dir \o << "macros", macro_name >>,
           workflow_dir \o << "Macros", macro_name >>,
           Parent(workflow_dir) \o << macro_name >>,
           Parent(workflow_dir) \o << "macros", macro_name >> >>
        \o SearchDirLocations(sd, macro_name)

\* info is what trying the locations in order gives: the first location that
\* is a file, or not found when there is none
FirstMatch(info, locs) ==
    LET hits == { i \in 1..Len(locs) : IsFile(files, locs[i]) } IN
    IF hits = {} THEN ~info.found
    ELSE /\ info.found
         /\ \E i \in hits : /\ \A j \in hits : i <= j
                            /\ info.resolved_path = locs[i]

\* a call that returned without a prompt gave every reference it resolved
\* the cached path, or else the first match of the locations
ResolvedInOrder(Locations(_, _, _)) ==
    \A w \in Docs, ref \in Refs :
        (/\ CallReturned(w)
         /\ InSeq(ref, workflows[w].macros_used)
         /\ ref \notin skip_macros)
        => IF resolved_paths[ref] # NoPath
             THEN report'[w][ref].found
                  /\ report'[w][ref].resolved_path = resolved_paths[ref]
             ELSE FirstMatch(report'[w][ref], Locations(search_directories, ref, w))

\* C3, as stated: the candidates are exactly the cache entry, the exact path,
\* the path relative to the document's directory, macros/ next to the
\* document, and the search directories with their subtrees.
C3_ClaimedOrder == [][ResolvedInOrder(ClaimedLocations)]_vars

\* C3, amended: between the path relative to the document's directory and
\* the search directories the candidates are the file name in the document's
\* directory, in its macros/ and Macros/ sub-directories, in the parent
\* directory and in the parent's macros/ sub-directory.
C3_SearchOrder == [][ResolvedInOrder(AmendedLocations)]_vars

\* B.yxmc lies in the parent directory and in a search directory: the
\* parent's is returned
C3_Witness ==
    /\ Found("W1", RefB)
    /\ report["W1"][RefB].resolved_path = Proj \o << "B.yxmc" >>
    /\ \E i \in 1..Len(search_directories) :
         IsFile(files, search_directories[i] \o << "B.yxmc" >>)

\* the step starts a resolve_macros(w) call
CallStep(w) == pc = "idle" /\ ncalls'[w] = ncalls[w] + 1

\* an earlier call on w reported every macro reference of w found
AllResolved(w) ==
    /\ ncalls[w] >= 1
    /\ \A i \in 1..Len(workflows[w].macros_used) :
         Found(w, workflows[w].macros_used[i])

\* C4, as stated: a second resolve of a workflow whose references are all
\* resolved leaves the workflow as it is and returns an empty report.
C4_EmptyReport ==
    [][\A w \in Docs :
         (CallStep(w) /\ AllResolved(w))
         => /\ pc' = "idle"
            /\ workflows'[w] = workflows[w]
            /\ report'[w] = EmptyInfos]_vars

\* C4, amended: the second resolve leaves the workflow, its missing list
\* included, as it is and returns the first call's report again: the same
\* references, each found at the same path with the same sub-graph.
C4_SameReport ==
    [][\A w \in Docs :
         (CallStep(w) /\ AllResolved(w))
         => /\ pc' = "idle"
            /\ workflows'[w] = workflows[w]
            /\ DOMAIN report'[w] = DOMAIN report[w]
            /\ \A ref \in DOMAIN report[w] :
                 /\ report'[w][ref].found
                 /\ report'[w][ref].resolved_path = report[w][ref].resolved_path
                 /\ report'[w][ref].workflow = report[w][ref].workflow]_vars

\* the first document was resolved twice, every reference found both times
C4_Witness ==
    /\ pc = "idle"
    /\ ncalls["W1"] = 2
    /\ AllResolved("W1")
    /\ Len(workflows["W1"].macros_used) = 2
    /\ workflows["W1"].missing_macros = << >>

\* no candidate satisfies ref for w: no search location is a file, and no
\* path was cached or entered for it
Unresolvable(w, ref) ==
    /\ resolved_paths[ref] = NoPath
    /\ \A n \in 1..Len(SearchLocations(search_directories, ref, w)) :
         ~IsFile(files, SearchLocations(search_directories, ref, w)[n])

\* C5: after the first resolve of a workflow with two references, one with a
\* file at one of the document's own locations and not skipped, the other
\* satisfied by no candidate: the first is reported found, the other is not,
\* and the missing list holds the other one, once, whichever of the two
\* comes first.
C5_OneMissingOneResolved ==
    \A w \in Docs :
        LET used == workflows[w].macros_used IN
        (pc = "idle" /\ ncalls[w] = 1 /\ Len(used) = 2)
        => \A i, j \in 1..2 :
             (/\ i # j
              /\ used[i] \notin skip_macros
              /\ \E n \in 1..Len(DocLocations(used[i], w)) :
                    IsFile(files, DocLocations(used[i], w)[n])
              /\ Unresolvable(w, used[j]))
             => /\ Found(w, used[i])
                /\ ~Found(w, used[j])
                /\ workflows[w].missing_macros = << used[j] >>

\* the unresolvable reference comes first, the resolvable one second
C5_Witness ==
    LET used == workflows["W1"].macros_used IN
    /\ pc = "idle" /\ ncalls["W1"] = 1 /\ Len(used) = 2
    /\ Unresolvable("W1", used[1])
    /\ Found("W1", used[2])
    /\ workflows["W1"].missing_macros = << used[1] >>

BackReferences(w, ref) ==
    LET info == report[w][ref] IN
    { r2 \in {RefA, RefB, RefC} :
        /\ info.found /\ info.workflow.parsed
        /\ InSeq(r2, info.workflow.macros_used)
        /\ FirstFile(SearchLocationsFrom(search_directories, r2, info.resolved_path))
             = workflows[w].file_path }

\* C7, as stated: when the macro a reference resolves to references the
\* document back, a node of the chain is marked missing.
C7_CircularMarkedMissing ==
    \A w \in Docs : \A ref \in DOMAIN report[w] :
        \A r2 \in BackReferences(w, ref) :
            \/ InSeq(ref, workflows[w].missing_macros)
            \/ InSeq(r2, workflows[w].missing_macros)

\* C7, amended: the references of a parsed macro are not followed: the
\* reference is reported found with its sub-graph, the back reference is
\* neither resolved nor recorded, and the document is not parsed again.
C7_ChainNotFollowed ==
    \A w \in Docs : \A ref \in DOMAIN report[w] :
        \A r2 \in BackReferences(w, ref) :
            /\ parse_count[workflows[w].file_path] = 0
            /\ r2 \notin DOMAIN report[w]
            /\ ~InSeq(r2, workflows[w].missing_macros)

\* A.yxmc references B.yxmc, found next to it, which references A.yxmc
C7_Witness ==
    /\ pc = "idle"
    /\ Found("W1", RefB)
    /\ BackReferences("W1", RefB) = {RefA}
    /\ report["W1"][RefB].resolved_path = Wf1 \o << "B.yxmc" >>

\* C8, as stated: every reference of the skip set was put there by the
\* caller, or by an answer Skip or SkipAll.
C8_SkipOnlyByDecision == skip_macros \subseteq (force_skip \cup skip_answered)

\* C8, amended: or by the prompt reading the end of the input.
C8_SkipByDecisionOrEOF ==
    skip_macros \subseteq (force_skip \cup skip_answered \cup eof_skipped)

\* a reference was skipped by an answer, another not skipped after an interrupt
C8_Witness ==
    /\ pc = "idle"
    /\ \E ref \in skip_answered : ref \in skip_macros /\ ref \notin force_skip
    /\ \E w \in Docs : \E ref \in DOMAIN report[w] :
         ~report[w][ref].found /\ ref \notin skip_macros

\* C9, as stated: after resolve every macro node is resolved with a parsed
\* sub-graph or recorded in the missing list.
C9_EveryMacroNodeRecorded ==
    \A w \in Docs :
        (pc = "idle" /\ ncalls[w] >= 1)
        => \A i \in 1..Len(workflows[w].nodes) :
             LET node == workflows[w].nodes[i] IN
             node.is_macro
             => \/ Found(w, node.macro_path)
                   /\ report[w][node.macro_path].workflow.parsed
                \/ InSeq(node.macro_path, workflows[w].missing_macros)

\* C9, amended: after resolve every reference of macros_used is reported
\* found or recorded in the missing list, and the missing list holds
\* references of macros_used only: a macro node without reference string is
\* not recorded, nor is a reference found at a file that did not parse.
C9_UnfoundRecorded ==
    \A w \in Docs :
        (pc = "idle" /\ ncalls[w] >= 1)
        => /\ \A i \in 1..Len(workflows[w].macros_used) :
                \/ Found(w, workflows[w].macros_used[i])
                \/ InSeq(workflows[w].macros_used[i], workflows[w].missing_macros)
           /\ \A i \in 1..Len(workflows[w].missing_macros) :
                InSeq(workflows[w].missing_macros[i], workflows[w].macros_used)

\* a macro node without reference string, one found at a file that does not
\* parse and one skipped, in resolved workflows
C9_Witness ==
    /\ pc = "idle" /\ ncalls["W1"] >= 1
    /\ \E i \in 1..Len(workflows["W1"].nodes) :
         workflows["W1"].nodes[i].is_macro /\ workflows["W1"].nodes[i].macro_path = NoRef
    /\ Found("W1", RefLibB) /\ ~report["W1"][RefLibB].workflow.parsed
    /\ workflows["W1"].missing_macros = << >>

\* the node identifiers of the workflow are pairwise distinct
DistinctIds(nodes) ==
    \A i, j \in 1..Len(nodes) : nodes[i].tool_id = nodes[j].tool_id => i = j

\* C10, as stated: after a reference resolved with a parsed sub-graph, the
\* host workflow holds the macro's nodes under identifiers of their own, and
\* the cache an entry for the reference.
C10_SubgraphMerged ==
    \A w \in Docs : \A ref \in DOMAIN report[w] :
        LET info == report[w][ref]
            host == workflows[w].nodes IN
        (info.found /\ info.workflow.parsed)
        => /\ \A i \in 1..Len(info.workflow.nodes) :
                \E j \in 1..Len(host) :
                    /\ host[j].plugin_name = info.workflow.nodes[i].plugin_name
                    /\ host[j].annotation = info.workflow.nodes[i].annotation
           /\ DistinctIds(host)
           /\ resolved_paths[ref] # NoPath

\* C10, amended: the host workflow keeps the nodes parse gave it, with
\* pairwise distinct identifiers; the sub-graph is carried by the returned
\* MacroInfo, and the cache holds the path the reference was found at.
C10_SubgraphKeptApart ==
    \A w \in Docs : \A ref \in DOMAIN report[w] :
        LET info == report[w][ref] IN
        info.found
        => /\ workflows[w].nodes \in DocShapes1 \cup DocShapes2
           /\ DistinctIds(workflows[w].nodes)
           /\ info.workflow = ParsedFile(files, info.resolved_path)
           /\ resolved_paths[ref] = info.resolved_path

\* a reference found with a parsed sub-graph of four nodes
C10_Witness ==
    /\ pc = "idle"
    /\ Found("W1", RefB)
    /\ report["W1"][RefB].workflow.parsed
    /\ Len(report["W1"][RefB].workflow.nodes) = 4
    /\ Len(workflows["W1"].nodes) = 2
    /\ resolved_paths[RefB] = report["W1"][RefB].resolved_path

(***************************************************************************)
(* Ingestor: AlteryxParser.parse on one XML document.                      *)
(*                                                                         *)
(* A document is the content of an existing .yxmd file: whether it is      *)
(* well-formed XML, its Nodes element (if any) with the Node elements in   *)
(* document order, and its Connections element (if any) with the          *)
(* Connection elements in document order.  An attribute value is the       *)
(* string written in the document.                                         *)
(***************************************************************************)
\* Node elements under the Nodes element of one document
MaxNodes == 3
\* Connection elements under the Connections element of one document
MaxConnections == 2
\* ChildToolIds elements below one Node element
MaxChildElems == 2

\* elem.get(name) of an attribute the element does not carry
Absent == "<absent>"
\* elem.find(name) of a child element that is not there
NoElem == "<no element>"
\* AlteryxNode.container_id = None
NoId == -1

\* the strings int() converts; on any other string of the model it raises
\* ValueError
IntLiterals == {"0", "1", "01", "2", "3", "9"}

\* int(s) of a string that int() converts
ToInt(s) ==
    CASE s = "0" -> 0
      [] s \in {"1", "01"} -> 1
      [] s = "2" -> 2
      [] s = "3" -> 3
      [] s = "9" -> 9

\* tool_mappings.get_category_from_plugin
get_category_from_plugin(plugin) ==
    CASE plugin = "ToolContainer" -> "CONTAINER"
      [] plugin = "DbFileInput" -> "INPUT"
      [] plugin = "DbFileOutput" -> "OUTPUT"
      [] OTHER -> "TRANSFORM"

\* <Node ToolID=...><GuiSettings Plugin=...>, with the ChildToolIds elements
\* below it in document order: each directly under the Node, or under its
\* Configuration or Properties element; text is the element's text split at
\* commas and white space
NodeElem(ToolID, Plugin, child_elems) ==
    [ToolID |-> ToolID, Plugin |-> Plugin, child_elems |-> child_elems]

ChildElem(under, text) == [under |-> under, text |-> text]

\* <Connection><Origin ToolID=.../><Destination ToolID=.../></Connection>
ConnectionElem(origin, destination) == [Origin |-> origin, Destination |-> destination]

\* the script of _extract_container_children's first loop: every integer of
\* the text is appended
RECURSIVE AppendAll(_, _, _)
AppendAll(child_ids, text, i) ==
    IF i > Len(text) THEN child_ids
    ELSE AppendAll(IF text[i] \in IntLiterals
                     THEN Append(child_ids, ToInt(text[i]))
                     ELSE child_ids,
                   text, i + 1)

\* its second and third loop: an integer is appended if not there yet
RECURSIVE AppendNew(_, _, _)
AppendNew(child_ids, text, i) ==
    IF i > Len(text) THEN child_ids
    ELSE AppendNew(IF /\ text[i] \in IntLiterals
                      /\ \A k \in 1..Len(child_ids) : child_ids[k] # ToInt(text[i])
                     THEN Append(child_ids, ToInt(text[i]))
                     ELSE child_ids,
                   text, i + 1)

\* node_elem.find(xpath): the text of the first ChildToolIds element, in
\* document order, that lies under one of the given elements; << >> when
\* there is none or it has no text
FindText(child_elems, unders) ==
    LET hits == {i \in 1..Len(child_elems) : child_elems[i].under \in unders}
    IN  IF hits = {} THEN << >>
        ELSE child_elems[CHOOSE i \in hits : \A j \in hits : i <= j].text

\* a child list that stops at the first location that holds one
ExtractFirstLocationOnly(node_elem) ==
    LET c == node_elem.child_elems
        t1 == FindText(c, {"Node"})
        t2 == FindText(c, {"Configuration"})
        t3 == FindText(c, {"Properties"})
    IN  AppendNew(<< >>, IF t1 # << >> THEN t1 ELSE IF t2 # << >> THEN t2 ELSE t3, 1)

\* _extract_container_children
ExtractContainerChildren(node_elem) ==
    LET c == node_elem.child_elems
        all == AppendAll(<< >>, FindText(c, {"Node", "Configuration", "Properties"}), 1)
        cfg == AppendNew(all, FindText(c, {"Configuration"}), 1)
    IN  AppendNew(cfg, FindText(c, {"Properties"}), 1)

\* the AlteryxNode _parse_single_node builds
NewNode(tool_id, plugin) ==
    [tool_id |-> tool_id,
     tool_type |-> plugin,
     category |-> IF plugin = "" THEN "MACRO" ELSE get_category_from_plugin(plugin),
     is_macro |-> (plugin = ""),
     child_tool_ids |-> << >>,
     container_id |-> NoId]

\* _parse_single_node: None, an AlteryxNode, or ValueError out of int()
ParseSingleNode(node_elem) ==
    IF node_elem.ToolID \in {Absent, ""} THEN [status |-> "None"]
    ELSE IF node_elem.ToolID \notin IntLiterals THEN [status |-> "ValueError"]
    ELSE [status |-> "node", node |-> NewNode(ToInt(node_elem.ToolID), node_elem.Plugin)]

\* container_children[key] = value on a dict kept as its items() sequence: a
\* new key goes last, an old key keeps its place
DictSet(items, key, value) ==
    IF \E i \in 1..Len(items) : items[i].key = key
      THEN [i \in 1..Len(items) |->
              IF items[i].key = key THEN [key |-> key, value |-> value] ELSE items[i]]
      ELSE Append(items, [key |-> key, value |-> value])

\* an append that leaves out a node whose identifier is already there
AddNodeUnique(nodes, node) ==
    IF \E n \in 1..Len(nodes) : nodes[n].tool_id = node.tool_id
      THEN nodes ELSE Append(nodes, node)

\* nodes.append(node)
AddNode(nodes, node) == Append(nodes, node)

\* the first loop of _parse_nodes from Node element i on
RECURSIVE CollectNodes(_, _, _, _)
CollectNodes(node_elems, nodes, container_children, i) ==
    IF i > Len(node_elems)
      THEN [status |-> "ok", nodes |-> nodes, container_children |-> container_children]
      ELSE LET r == ParseSingleNode(node_elems[i])
           IN  CASE r.status = "ValueError" ->
                      [status |-> "ValueError", nodes |-> << >>,
                       container_children |-> << >>]
                 [] r.status = "None" ->
                      CollectNodes(node_elems, nodes, container_children, i + 1)
                 [] r.status = "node" ->
                      IF r.node.category = "CONTAINER"
                        THEN LET child_ids == ExtractContainerChildren(node_elems[i])
                             IN  CollectNodes(node_elems,
                                     AddNode(nodes, [r.node EXCEPT !.child_tool_ids = child_ids]),
                                     DictSet(container_children, r.node.tool_id, child_ids),
                                     i + 1)
                        ELSE CollectNodes(node_elems, AddNode(nodes, r.node),
                                          container_children, i + 1)

\* a second pass that marks every node with the identifier
SetContainerIdOnAll(nodes, child_id, container_id) ==
    [n \in 1..Len(nodes) |->
        IF nodes[n].tool_id = child_id
          THEN [nodes[n] EXCEPT !.container_id = container_id]
          ELSE nodes[n]]

\* the innermost loop of _parse_nodes: the first node with the identifier
\* gets the container_id
SetContainerId(nodes, child_id, container_id) ==
    LET hits == {n \in 1..Len(nodes) : nodes[n].tool_id = child_id}
    IN  IF hits = {} THEN nodes
        ELSE [nodes EXCEPT ![CHOOSE n \in hits : \A m \in hits : n <= m].container_id
                              = container_id]

RECURSIVE SetChildren(_, _, _, _)
SetChildren(nodes, child_ids, container_id, j) ==
    IF j > Len(child_ids) THEN nodes
    ELSE SetChildren(SetContainerId(nodes, child_ids[j], container_id),
                     child_ids, container_id, j + 1)

\* the second loop of _parse_nodes over container_children.items()
RECURSIVE SetContainers(_, _, _)
SetContainers(nodes, container_children, i) ==
    IF i > Len(container_children) THEN nodes
    ELSE SetContainers(SetChildren(nodes, container_children[i].value,
                                   container_children[i].key, 1),
                       container_children, i + 1)

\* a _parse_nodes that refuses a document without a Nodes element
ParseNodesStrict(doc) ==
    IF ~doc.has_nodes THEN [status |-> "FormatError", nodes |-> << >>]
    ELSE LET c == CollectNodes(doc.nodes, << >>, << >>, 1)
         IN  IF c.status # "ok" THEN [status |-> c.status, nodes |-> << >>]
             ELSE [status |-> "ok",
                   nodes |-> SetContainers(c.nodes, c.container_children, 1)]

\* _parse_nodes
ParseNodes(doc) ==
    IF ~doc.has_nodes THEN [status |-> "ok", nodes |-> << >>]
    ELSE LET c == CollectNodes(doc.nodes, << >>, << >>, 1)
         IN  IF c.status # "ok" THEN [status |-> c.status, nodes |-> << >>]
             ELSE [status |-> "ok",
                   nodes |-> SetContainers(c.nodes, c.container_children, 1)]

\* int(elem.get('ToolID', 0))
EndpointIsInt(attr) == attr = Absent \/ attr \in IntLiterals
EndpointId(attr) == IF attr = Absent THEN 0 ELSE ToInt(attr)

\* an AlteryxConnection with the two ends exchanged
NewConnectionReversed(origin_id, destination_id) ==
    [origin_id |-> destination_id, origin_anchor |-> "Output",
     destination_id |-> origin_id, destination_anchor |-> "Input"]

\* the AlteryxConnection _parse_connections builds
NewConnection(origin_id, destination_id) ==
    [origin_id |-> origin_id, origin_anchor |-> "Output",
     destination_id |-> destination_id, destination_anchor |-> "Input"]

\* a loop body that leaves out a connection of a tool to itself
ConnectionOfNoSelfLoop(conn) ==
    IF conn.Origin = NoElem \/ conn.Destination = NoElem THEN [status |-> "skip"]
    ELSE IF ~EndpointIsInt(conn.Origin) \/ ~EndpointIsInt(conn.Destination)
      THEN [status |-> "ValueError"]
    ELSE IF EndpointId(conn.Origin) = EndpointId(conn.Destination)
      THEN [status |-> "skip"]
    ELSE [status |-> "connection",
          connection |-> NewConnection(EndpointId(conn.Origin),
                                       EndpointId(conn.Destination))]

\* the loop body of _parse_connections on one Connection element: nothing
\* without both Origin and Destination, else an AlteryxConnection, or
\* ValueError out of int()
ConnectionOf(conn) ==
    IF conn.Origin = NoElem \/ conn.Destination = NoElem THEN [status |-> "skip"]
    ELSE IF ~EndpointIsInt(conn.Origin) \/ ~EndpointIsInt(conn.Destination)
      THEN [status |-> "ValueError"]
    ELSE [status |-> "connection",
          connection |-> NewConnection(EndpointId(conn.Origin),
                                       EndpointId(conn.Destination))]

\* the loop of _parse_connections from Connection element i on
RECURSIVE CollectConnections(_, _, _)
CollectConnections(conn_elems, connections, i) ==
    IF i > Len(conn_elems) THEN [status |-> "ok", connections |-> connections]
    ELSE LET r == ConnectionOf(conn_elems[i])
         IN  CASE r.status = "skip" ->
                    CollectConnections(conn_elems, connections, i + 1)
               [] r.status = "ValueError" ->
                    [status |-> "ValueError", connections |-> << >>]
               [] r.status = "connection" ->
                    CollectConnections(conn_elems, Append(connections, r.connection),
                                       i + 1)

\* _parse_connections
ParseConnections(doc) ==
    IF ~doc.has_connections THEN [status |-> "ok", connections |-> << >>]
    ELSE CollectConnections(doc.connections, << >>, 1)

\* what parse raised
Raised(status) == [status |-> status, nodes |-> << >>, connections |-> << >>]

\* parse: ET.parse, then _parse_nodes, then _parse_connections; an exception
\* of any of them leaves parse
Parse(doc) ==
    IF ~doc.wellformed THEN Raised("ParseError")
    ELSE LET n == ParseNodes(doc)
         IN  IF n.status # "ok" THEN Raised(n.status)
             ELSE LET c == ParseConnections(doc)
                  IN  IF c.status # "ok" THEN Raised(c.status)
                      ELSE [status |-> "ok", nodes |-> n.nodes,
                            connections |-> c.connections]

Document(has_nodes, nodes, has_connections, connections) ==
    [wellformed |-> TRUE, has_nodes |-> has_nodes, nodes |-> nodes,
     has_connections |-> has_connections, connections |-> connections]

\* Node elements of the documents that vary the node list: tools with a
\* good, a repeated, a missing and a malformed ToolID, a macro node, and
\* containers that declare their children in one place
ShapeElems ==
    {NodeElem(t, "Filter", << >>) : t \in {Absent, "1", "01", "2", "3", "x"}}
    \cup {NodeElem("2", "", << >>)}
    \cup {NodeElem(t, "ToolContainer", << ChildElem(u, << "2", "3" >>) >>) :
            t \in {"1", "3"}, u \in {"Node", "Configuration", "Properties"}}

\* the ChildToolIds elements of the documents that vary one child list
ChildElems ==
    {ChildElem(u, c) :
        u \in {"Node", "Configuration", "Properties"},
        c \in { << >>, << "2", "2" >>, << "2", "x", "3" >>, << "3" >> }}

\* the Connection elements of the documents that vary the edge list
ConnectionElems ==
    {ConnectionElem(o, d) :
        o \in {NoElem, Absent, "1", "9", "x"}, d \in {NoElem, Absent, "1", "2"}}

TwoTools == << NodeElem("1", "DbFileInput", << >>), NodeElem("2", "Filter", << >>) >>

\* the documents with n Node elements and no Connection element
ShapeDocuments(n) ==
    {Document(TRUE, ns, hc, << >>) : ns \in [1..n -> ShapeElems], hc \in BOOLEAN}

\* the documents of one container with n ChildToolIds elements and two tools
ChildListDocuments(n) ==
    {Document(TRUE, << NodeElem("1", "ToolContainer", ce),
                       NodeElem("2", "Filter", << >>),
                       NodeElem("3", "Filter", << >>) >>, TRUE, << >>) :
        ce \in [1..n -> ChildElems]}

\* the documents with n Connection elements
ConnectionDocuments(n) ==
    {Document(hn, IF hn THEN ns ELSE << >>, TRUE, cs) :
        hn \in BOOLEAN, ns \in {<< >>, TwoTools}, cs \in [1..n -> ConnectionElems]}

\* a file that is not well-formed XML, and a document with neither a Nodes
\* nor a Connections element
OtherDocuments ==
    {[NoDocument EXCEPT !.wellformed = FALSE], Document(FALSE, << >>, FALSE, << >>)}

resolverVars ==
    << files, workflows, search_directories, resolved_paths, skip_macros,
       skip_all, interactive, pc, cur, report, parse_count, search_count,
       ncalls, force_skip, skip_answered, eof_skipped >>

\* no resolver at work
NoResolver ==
    /\ files = << >>
    /\ workflows = << >>
    /\ search_directories = << >>
    /\ resolved_paths = << >>
    /\ skip_macros = {}
    /\ skip_all = FALSE
    /\ interactive = FALSE
    /\ pc = "idle"
    /\ cur = NoCall
    /\ report = << >>
    /\ parse_count = << >>
    /\ search_count = << >>
    /\ ncalls = << >>
    /\ force_skip = {}
    /\ skip_answered = {}
    /\ eof_skipped = {}

ParseInit ==
    /\ \/ document \in OtherDocuments
       \/ \E n \in 0..MaxNodes : document \in ShapeDocuments(n)
       \/ \E n \in 0..MaxChildElems : document \in ChildListDocuments(n)
       \/ \E n \in 0..MaxConnections : document \in ConnectionDocuments(n)
    /\ parsed = NotParsed
    /\ graph = NoGraph
    /\ medallion = NotAnalyzed
    /\ NoGenerator
    /\ NoResolver

\* AlteryxParser().parse(file_path) on the document
ParseDocument ==
    /\ parsed.status = "none"
    /\ parsed' = Parse(document)
    /\ UNCHANGED << document, analyzerVars, resolverVars, generatorVars >>

ParseNext == ParseDocument

ParseSpec == ParseInit /\ [][ParseNext]_vars

(***************************************************************************)
(* Properties of the Ingestor                                              *)
(***************************************************************************)
Returned == parsed.status = "ok"

HasToolId(node_elem) == node_elem.ToolID \notin {Absent, ""}
\* the Node elements that carry a ToolID, in document order
DeclaredNodes(doc) == SelectSeq(doc.nodes, HasToolId)

HasBothEnds(conn) == conn.Origin # NoElem /\ conn.Destination # NoElem
\* the Connection elements with an Origin and a Destination, in document order
DeclaredConnections(doc) == SelectSeq(doc.connections, HasBothEnds)

\* the identifier an endpoint element declares
DeclaredId(attr) == IF attr = Absent THEN 0 ELSE ToInt(attr)

\* the document holds an identifier that int() does not convert
IntFailure(doc) ==
    \/ \E i \in 1..Len(doc.nodes) :
          HasToolId(doc.nodes[i]) /\ doc.nodes[i].ToolID \notin IntLiterals
    \/ \E k \in 1..Len(doc.connections) :
          /\ HasBothEnds(doc.connections[k])
          /\ \/ doc.connections[k].Origin \notin IntLiterals \cup {Absent}
             \/ doc.connections[k].Destination \notin IntLiterals \cup {Absent}

NodeIds == {parsed.nodes[i].tool_id : i \in 1..Len(parsed.nodes)}

\* C11 (as claimed): in every graph parse returns, no two node records carry
\* the same identifier, also when the document declares a ToolID twice
C11_DistinctIdentifiers ==
    Returned =>
        \A i, j \in 1..Len(parsed.nodes) :
            i # j => parsed.nodes[i].tool_id # parsed.nodes[j].tool_id

\* C11 (amended): the graph parse returns holds one node record per Node
\* element that carries a ToolID, in document order, with the integer value of
\* that ToolID as its identifier; a repeated ToolID is neither refused nor
\* merged, so the identifiers are distinct only if the declared values are
C11_IdentifiersAsDeclared ==
    Returned =>
        LET d == DeclaredNodes(document)
        IN  /\ Len(parsed.nodes) = Len(d)
            /\ \A i \in 1..Len(d) : parsed.nodes[i].tool_id = ToInt(d[i].ToolID)

\* parse returned a graph with two node records of one identifier, declared
\* by two different ToolID strings
C11_Witness ==
    /\ Returned
    /\ \E i, j \in 1..Len(parsed.nodes) :
          /\ i < j
          /\ parsed.nodes[i].tool_id = parsed.nodes[j].tool_id
          /\ Len(document.nodes) = Len(parsed.nodes)
          /\ document.nodes[i].ToolID # document.nodes[j].ToolID

\* C12 (as claimed): in every graph parse returns, both ends of every edge
\* are identifiers of nodes of the graph
C12_EndpointsPresent ==
    Returned =>
        \A k \in 1..Len(parsed.connections) :
            /\ parsed.connections[k].origin_id \in NodeIds
            /\ parsed.connections[k].destination_id \in NodeIds

\* C12 (amended): the graph parse returns holds one edge per Connection
\* element that has an Origin and a Destination, in document order, with the
\* identifiers they declare (0 for an absent ToolID), whether or not a node
\* with that identifier exists; no node record is dropped on account of it
C12_EdgePerConnection ==
    Returned =>
        LET d == DeclaredConnections(document)
        IN  /\ Len(parsed.connections) = Len(d)
            /\ \A k \in 1..Len(d) :
                  /\ parsed.connections[k].origin_id = DeclaredId(d[k].Origin)
                  /\ parsed.connections[k].destination_id = DeclaredId(d[k].Destination)
            /\ Len(parsed.nodes) = Len(DeclaredNodes(document))

\* parse returned a graph of two nodes with an edge from a node that is not
\* in it
C12_Witness ==
    /\ Returned
    /\ Len(parsed.nodes) = 2
    /\ \E k \in 1..Len(parsed.connections) :
          /\ parsed.connections[k].origin_id = 9
          /\ parsed.connections[k].destination_id \in NodeIds

\* the document declares a connection of a tool to itself
SelfLoopsDeclared(doc) ==
    {k \in 1..Len(doc.connections) :
        /\ HasBothEnds(doc.connections[k])
        /\ doc.connections[k].Origin \in IntLiterals \cup {Absent}
        /\ doc.connections[k].Destination \in IntLiterals \cup {Absent}
        /\ DeclaredId(doc.connections[k].Origin)
             = DeclaredId(doc.connections[k].Destination)}

HasSelfLoop ==
    \E k \in 1..Len(parsed.connections) :
        parsed.connections[k].origin_id = parsed.connections[k].destination_id

IsIntToolId(node_elem) == node_elem.ToolID \in IntLiterals

\* C15 (as claimed): a Node element whose ToolID is missing or not an integer
\* is left out and parse returns the graph of all other nodes
C15_BadIdentifierSkipsNode ==
    ( /\ parsed.status # "none"
      /\ document.wellformed
      /\ \A k \in 1..Len(document.connections) :
            ConnectionOf(document.connections[k]).status # "ValueError" )
    => /\ Returned
       /\ LET good == SelectSeq(document.nodes, IsIntToolId)
          IN  /\ Len(parsed.nodes) = Len(good)
              /\ \A i \in 1..Len(good) : parsed.nodes[i].tool_id = ToInt(good[i].ToolID)

Containers == {i \in 1..Len(parsed.nodes) : parsed.nodes[i].category = "CONTAINER"}

\* node record n is the first of the graph with its identifier
FirstWithId(n) == \A m \in 1..(n - 1) : parsed.nodes[m].tool_id # parsed.nodes[n].tool_id

IsIntLiteral(s) == s \in IntLiterals
\* the integers a ChildToolIds text holds, in order
Ints(text) ==
    LET lit == SelectSeq(text, IsIntLiteral)
    IN  [k \in 1..Len(lit) |-> ToInt(lit[k])]

Range(seq) == {seq[k] : k \in 1..Len(seq)}

\* the integers of the first ChildToolIds element below one of the elements U
IntsOfFirst(child_elems, U) ==
    LET under == SelectSeq(child_elems, LAMBDA e : e.under \in U)
    IN  IF under = << >> THEN << >> ELSE Ints(under[1].text)

NoRepeat(seq) == \A k, m \in 1..Len(seq) : k # m => seq[k] # seq[m]

\* C17 (as claimed): the child list of a Container node is that of the first
\* of the three locations that holds one, and holds no identifier twice
C17_FirstMatchDeduplicated ==
    (Returned /\ Len(parsed.nodes) = Len(document.nodes)) =>
        \A c \in Containers :
            /\ NoRepeat(parsed.nodes[c].child_tool_ids)
            /\ parsed.nodes[c].child_tool_ids = ExtractFirstLocationOnly(document.nodes[c])

\* C17 (amended): the child list of a Container node starts with all the
\* integers of the first ChildToolIds element found anywhere below the Node
\* element, repeats included, and goes on with the integers of the first
\* one below Configuration and then of the first one below Properties that
\* are not yet in the list
C17_AllLocationsMerged ==
    (Returned /\ Len(parsed.nodes) = Len(document.nodes)) =>
        \A c \in Containers :
            LET ce == document.nodes[c].child_elems
                any == IntsOfFirst(ce, {"Node", "Configuration", "Properties"})
                cfg == IntsOfFirst(ce, {"Configuration"})
                prp == IntsOfFirst(ce, {"Properties"})
                list == parsed.nodes[c].child_tool_ids
            IN  /\ Len(list) >= Len(any)
                /\ SubSeq(list, 1, Len(any)) = any
                /\ Range(list) = Range(any) \cup Range(cfg) \cup Range(prp)
                /\ \A k \in (Len(any) + 1)..Len(list) :
                      /\ \A m \in 1..(k - 1) : list[m] # list[k]
                      /\ \A m \in (k + 1)..Len(list) :
                            list[m] \in Range(cfg) => list[k] \in Range(cfg)

\* parse returned a Container node whose child list repeats an identifier
\* of its first ChildToolIds element and adds one of a second element
C17_Witness ==
    /\ Returned
    /\ \E c \in Containers : parsed.nodes[c].child_tool_ids = << 2, 2, 3 >>

(***************************************************************************)
(* One resolver, several documents, in batch mode: the search directories  *)
(* and the file system stay as they are.                                   *)
(***************************************************************************)
BatchInit == Init /\ interactive = FALSE

BatchNext == \E w \in Docs : ResolveMacros(w)

BatchSpec == BatchInit /\ [][BatchNext]_vars

(***************************************************************************)
(* One resolver, several documents, and macro files that are deleted       *)
(* while the run goes on.                                                  *)
(***************************************************************************)
ChurnInit ==
    /\ Init
    /\ skip_macros = {}
    /\ workflows["W1"].macros_used = << RefB, RefC >>
    /\ \A p \in DOMAIN files : files[p] = "ok"

\* a macro file is deleted between two steps of the resolver's caller
RemoveFile(p) ==
    /\ pc = "idle"
    /\ p \in DOMAIN files
    /\ files' = [q \in DOMAIN files \ {p} |-> files[q]]
    /\ UNCHANGED << workflows, search_directories, resolved_paths, skip_macros,
                    skip_all, interactive, pc, cur, report, parse_count,
                    search_count, ncalls, force_skip, skip_answered, eof_skipped >>
    /\ UNCHANGED << ingestVars, analyzerVars, generatorVars >>

ChurnNext ==
    \/ Next
    \/ \E p \in CandidateFiles : RemoveFile(p)

ChurnSpec == ChurnInit /\ [][ChurnNext]_vars

(***************************************************************************)
(* Properties of the cache shared by several documents                     *)
(***************************************************************************)
\* the step is a resolve_macros(w) call that returned without a prompt and
\* had to resolve ref
Resolves(w, ref) ==
    /\ CallReturned(w)
    /\ InSeq(ref, workflows[w].macros_used)
    /\ ref \notin skip_macros

\* C18 (as claimed): the cache entry of a reference string, once written, is
\* never overwritten, and every later resolution of the reference returns
\* the path it holds
C18_WrittenOnce ==
    [][\A ref \in Refs :
          resolved_paths[ref] # NoPath
             => /\ resolved_paths'[ref] = resolved_paths[ref]
                /\ \A w \in Docs :
                      Resolves(w, ref)
                         => /\ report'[w][ref].found
                            /\ report'[w][ref].resolved_path = resolved_paths[ref]]_vars

\* C18 (amended): as long as the path it holds exists, the cache entry of a
\* reference string is not overwritten and every resolution of the reference,
\* by whichever document, returns that path
C18_KeptWhilePathExists ==
    [][\A ref \in Refs :
          (resolved_paths[ref] # NoPath /\ Exists(files, resolved_paths[ref]))
             => /\ resolved_paths'[ref] = resolved_paths[ref]
                /\ \A w \in Docs :
                      Resolves(w, ref)
                         => /\ report'[w][ref].found
                            /\ report'[w][ref].resolved_path = resolved_paths[ref]]_vars

\* both documents were resolved, the second after the first, and B.yxmc is
\* reported to the second at the path the first had found next to itself and
\* cached, although the second has its own candidate in the parent directory
C18_Witness ==
    /\ pc = "idle"
    /\ ncalls["W1"] = 1 /\ ncalls["W2"] = 1
    /\ Found("W1", RefB) /\ Found("W2", RefB)
    /\ report["W2"][RefB].resolved_path = Wf1 \o << "B.yxmc" >>
    /\ resolved_paths[RefB] = Wf1 \o << "B.yxmc" >>
    /\ IsFile(files, Proj \o << "B.yxmc" >>)

\* the documents that refer to ref
Requesters(ref) == {w \in Docs : InSeq(ref, workflows[w].macros_used)}

\* what a search of w for ref gives on a resolver with an empty cache
FreshPath(ref, w) ==
    LET locs == AmendedLocations(search_directories, ref, w)
        hits == {i \in 1..Len(locs) : IsFile(files, locs[i])}
    IN  IF hits = {} THEN NoPath ELSE locs[CHOOSE i \in hits : \A j \in hits : i <= j]

\* the outcome reported to w for ref: the path, or NoPath when not found
Outcome(w, ref) ==
    IF report[w][ref].found THEN report[w][ref].resolved_path ELSE NoPath

\* C19 (as claimed): the artifact reported for a reference is the same for
\* every requesting document, and it is the one the document would get
\* whatever was resolved before it
C19_OrderIndependent ==
    \A ref \in Refs \ skip_macros :
       \A w \in Requesters(ref) :
          (pc = "idle" /\ ncalls[w] >= 1)
             => /\ Outcome(w, ref) = FreshPath(ref, w)
                /\ \A w2 \in Requesters(ref) :
                      ncalls[w2] >= 1 => Outcome(w2, ref) = Outcome(w, ref)

\* C19 (amended): the artifact reported for a reference is order-independent
\* and the same for every requesting document when the first existing
\* candidate is the same for all of them (the path as given, the shared parent
\* directory, a search directory); otherwise it is the candidate of one of
\* the requesting documents resolved so far, the first to find it
C19_SharedCandidateOrFirstFinder ==
    \A ref \in Refs \ skip_macros :
       \A w \in Requesters(ref) :
          (pc = "idle" /\ ncalls[w] >= 1)
             => /\ (\A w2 \in Requesters(ref) : FreshPath(ref, w2) = FreshPath(ref, w))
                      => Outcome(w, ref) = FreshPath(ref, w)
                /\ Outcome(w, ref) # NoPath
                      => \E w2 \in Requesters(ref) :
                            ncalls[w2] >= 1 /\ Outcome(w, ref) = FreshPath(ref, w2)
                /\ Outcome(w, ref) = NoPath => FreshPath(ref, w) = NoPath

\* both documents were resolved and B.yxmc, which lies in a search directory
\* only, is reported to both from there
C19_Witness ==
    /\ pc = "idle"
    /\ ncalls["W1"] = 1 /\ ncalls["W2"] = 1
    /\ Requesters(RefB) = Docs
    /\ FreshPath(RefB, "W1") = Ext \o << "B.yxmc" >>
    /\ Outcome("W1", RefB) = Ext \o << "B.yxmc" >>
    /\ Outcome("W2", RefB) = Ext \o << "B.yxmc" >>

(***************************************************************************)
(* Transformation Analyzer: the layer of every node of a workflow, as      *)
(* DBTGenerator._generate_workflow_models reads it.                        *)
(*                                                                         *)
(* A graph is an AlteryxWorkflow as parse builds it: node records with     *)
(* distinct identifiers 1..n and the set of its connections.               *)
(***************************************************************************)
\* nodes of one analysed workflow
MaxGraphNodes == 3
\* connections of one analysed workflow
MaxGraphEdges == 3

\* the tools of the analysed workflows: category, plugin_name and the
\* aggregations _parse_summarize_config found
ToolKinds ==
    { [category |-> "INPUT", plugin_name |-> "Input Data", aggregations |-> << >>],
      [category |-> "TRANSFORM", plugin_name |-> "Filter", aggregations |-> << >>],
      [category |-> "TRANSFORM", plugin_name |-> "Summarize", aggregations |-> << >>],
      [category |-> "TRANSFORM", plugin_name |-> "Summarize", aggregations |-> << "Sum" >>],
      [category |-> "OUTPUT", plugin_name |-> "Output Data", aggregations |-> << >>] }

GraphNode(tool_id, kind) ==
    [tool_id |-> tool_id, category |-> kind.category,
     plugin_name |-> kind.plugin_name, aggregations |-> kind.aggregations]

Edge(origin_id, destination_id) ==
    [origin_id |-> origin_id, destination_id |-> destination_id]

\* the workflows of n nodes; a connection leads from a node to one with a
\* higher identifier
GraphsOf(n) ==
    { [nodes |-> [i \in 1..n |-> GraphNode(i, kinds[i])], connections |-> es] :
        kinds \in [1..n -> ToolKinds],
        es \in { E \in SUBSET {Edge(p[1], p[2]) :
                                 p \in {q \in (1..n) \X (1..n) : q[1] < q[2]}} :
                    Cardinality(E) <= MaxGraphEdges } }

\* AlteryxWorkflow.get_upstream_nodes, get_downstream_nodes: the identifiers
\* of the nodes with a connection into, out of the node
Upstream(g, tool_id) == {c.origin_id : c \in {e \in g.connections : e.destination_id = tool_id}}
Downstream(g, tool_id) == {c.destination_id : c \in {e \in g.connections : e.origin_id = tool_id}}

\* a node that aggregates: a Summarize or an output with aggregations
Aggregates(node) ==
    /\ node.plugin_name = "Summarize" \/ node.category = "OUTPUT"
    /\ node.aggregations # << >>

\* the layer of one node: a sink or an aggregation is gold, also when it is
\* an input without upstream; an input without upstream is bronze otherwise
LayerOf(g, node) ==
    IF Downstream(g, node.tool_id) = {} \/ Aggregates(node) THEN "gold"
    ELSE IF node.category = "INPUT" /\ Upstream(g, node.tool_id) = {} THEN "bronze"
    ELSE "silver"

InLayer(g, layer) == {i \in 1..Len(g.nodes) : LayerOf(g, g.nodes[i]) = layer}

\* the nodes of g at the indices S, in the order of g.nodes
RECURSIVE NodesAt(_, _, _)
NodesAt(g, S, i) ==
    IF i > Len(g.nodes) THEN << >>
    ELSE (IF i \in S THEN << g.nodes[i] >> ELSE << >>) \o NodesAt(g, S, i + 1)

\* TransformationAnalyzer.suggest_medallion_mapping: layer -> list of nodes
SuggestMedallionMapping(g) ==
    [layer \in {"bronze", "silver", "gold"} |-> NodesAt(g, InLayer(g, layer), 1)]

\* a reading of the mapping that takes the marts from the silver list
LayerNodesSilverTwice(mapping, layer) ==
    IF layer = "gold" THEN mapping["silver"] ELSE mapping[layer]

\* medallion.get(layer.value, [])
LayerNodes(mapping, layer) ==
    IF layer \in DOMAIN mapping THEN mapping[layer] ELSE << >>

AnalyzeInit ==
    /\ \E n \in 0..MaxGraphNodes : graph \in GraphsOf(n)
    /\ medallion = NotAnalyzed
    /\ NoGenerator
    /\ document = NoDocument
    /\ parsed = NotParsed
    /\ NoResolver

\* a generator that takes its staging nodes by kind and position instead of
\* reading them from the mapping
AnalyzeSourcesAsStaging ==
    /\ medallion.status = "none"
    /\ LET mapping == SuggestMedallionMapping(graph)
           sources == {i \in 1..Len(graph.nodes) :
                          /\ graph.nodes[i].category = "INPUT"
                          /\ Upstream(graph, graph.nodes[i].tool_id) = {}}
       IN  medallion' = [status |-> "ok",
                         bronze_nodes |-> NodesAt(graph, sources, 1),
                         silver_nodes |-> LayerNodes(mapping, "silver"),
                         gold_nodes |-> NodesAt(graph, InLayer(graph, "gold") \ sources, 1)]
    /\ UNCHANGED << graph, ingestVars, resolverVars, generatorVars >>

\* _generate_workflow_models up to its three node lists
Analyze ==
    /\ medallion.status = "none"
    /\ LET mapping == SuggestMedallionMapping(graph)
       IN  medallion' = [status |-> "ok",
                         bronze_nodes |-> LayerNodes(mapping, "bronze"),
                         silver_nodes |-> LayerNodes(mapping, "silver"),
                         gold_nodes |-> LayerNodes(mapping, "gold")]
    /\ UNCHANGED << graph, ingestVars, resolverVars, generatorVars >>

AnalyzeNext == Analyze

AnalyzeSpec == AnalyzeInit /\ [][AnalyzeNext]_vars

(***************************************************************************)
(* Properties of the layer classification                                  *)
(***************************************************************************)
Analyzed == medallion.status = "ok"

\* the number of the three lists that hold the node
ListsWith(node) ==
    Cardinality({l \in {"b", "s", "g"} :
                    InSeq(node, IF l = "b" THEN medallion.bronze_nodes
                                ELSE IF l = "s" THEN medallion.silver_nodes
                                ELSE medallion.gold_nodes)})

IsSource(node) ==
    node.category = "INPUT" /\ \A e \in graph.connections : e.destination_id # node.tool_id

IsSink(node) == \A e \in graph.connections : e.origin_id # node.tool_id

IsAggregation(node) ==
    node.plugin_name \in {"Summarize", "Output Data"} /\ Len(node.aggregations) > 0

IsUnconnected(node) ==
    \A e \in graph.connections :
        e.origin_id # node.tool_id /\ e.destination_id # node.tool_id

NodeOrders(n) == {f \in [1..n -> 1..n] : \A i, j \in 1..n : f[i] = f[j] => i = j}

\* the plugin of the node with the identifier
KindOfId(tool_id) ==
    IF tool_id = 1
    THEN [category |-> "INPUT", plugin_name |-> "Input Data", aggregations |-> << >>]
    ELSE [category |-> "TRANSFORM", plugin_name |-> "Filter", aggregations |-> << >>]

\* the workflows of n nodes with their connections in any direction
OrderGraphsOf(n) ==
    { [nodes |-> [i \in 1..n |-> GraphNode(ids[i], KindOfId(ids[i]))], connections |-> es] :
        ids \in NodeOrders(n),
        es \in { E \in SUBSET {Edge(p[1], p[2]) : p \in (1..n) \X (1..n)} :
                    Cardinality(E) <= MaxGraphEdges } }

\* the identifiers of the nodes of g
GraphIds(g) == {g.nodes[i].tool_id : i \in 1..Len(g.nodes)}

\* the first node of g with the identifier
NodeWithId(g, tool_id) ==
    g.nodes[CHOOSE i \in 1..Len(g.nodes) :
               /\ g.nodes[i].tool_id = tool_id
               /\ \A j \in 1..(i - 1) : g.nodes[j].tool_id # tool_id]

\* the least of a non-empty set of identifiers
MinId(S) == CHOOSE x \in S : \A y \in S : x <= y

\* the nodes not yet ordered whose upstream nodes all are
ReadyIds(g, done) ==
    {x \in GraphIds(g) \ done : Upstream(g, x) \cap GraphIds(g) \subseteq done}

\* the topological sort: the ready node with the least identifier comes
\* next; << >> with cyclic set when nodes are left and none is ready
RECURSIVE TopologicalSort(_, _, _)
TopologicalSort(g, done, order) ==
    IF done = GraphIds(g) THEN [cyclic |-> FALSE, order |-> order]
    ELSE IF ReadyIds(g, done) = {} THEN [cyclic |-> TRUE, order |-> << >>]
    ELSE LET x == MinId(ReadyIds(g, done))
         IN  TopologicalSort(g, done \cup {x}, Append(order, x))

\* one TransformationStep: its sequence number, and the node it stands for
TransformationStep(g, order, tool_id) ==
    [order |-> order, tool_id |-> tool_id,
     tool_name |-> NodeWithId(g, tool_id).plugin_name]

\* TransformationAnalyzer.get_ordered_transformations
GetOrderedTransformations(g) ==
    LET sorted == TopologicalSort(g, {}, << >>)
    IN  IF sorted.cyclic THEN [raised |-> "CyclicDependency", steps |-> << >>]
        ELSE [raised |-> "",
              steps |-> [k \in 1..Len(sorted.order) |->
                           TransformationStep(g, k, sorted.order[k])]]

\* the line "{step.order}. **{step.tool_name}** (Tool #{step.tool_id})"
StepLine(step) ==
    [order |-> step.order, tool_name |-> step.tool_name, tool_id |-> step.tool_id]

\* a listing that walks the steps from the last to the first
StepLinesReversed(step_list) ==
    [k \in 1..Len(step_list) |-> StepLine(step_list[Len(step_list) + 1 - k])]

\* for step in steps: one line for every step, in the order of the list
StepLines(step_list) == [k \in 1..Len(step_list) |-> StepLine(step_list[k])]

OrderInit ==
    /\ \E n \in 0..MaxGraphNodes : graph \in OrderGraphsOf(n)
    /\ medallion = NotAnalyzed
    /\ NoGenerator
    /\ document = NoDocument
    /\ parsed = NotParsed
    /\ NoResolver

\* a listing that drops the connections it could not order along
GenerateWorkflowDocPruning ==
    /\ steps.status = "none"
    /\ LET result == GetOrderedTransformations(graph)
       IN  /\ steps' = IF result.raised # "" THEN [status |-> result.raised]
                       ELSE [status |-> "ok", lines |-> StepLines(result.steps)]
           /\ graph' = IF result.raised # ""
                       THEN [graph EXCEPT !.connections = {}] ELSE graph
    /\ UNCHANGED << medallion, inventory, dbt, sanitized, ingestVars, resolverVars >>

\* _generate_workflow_doc up to its "Transformation Steps" section; what
\* get_ordered_transformations raises is not caught
GenerateWorkflowDoc ==
    /\ steps.status = "none"
    /\ LET result == GetOrderedTransformations(graph)
       IN  steps' = IF result.raised # "" THEN [status |-> result.raised]
                    ELSE [status |-> "ok", lines |-> StepLines(result.steps)]
    /\ UNCHANGED << graph, medallion, inventory, dbt, sanitized, ingestVars, resolverVars >>

OrderNext == GenerateWorkflowDoc

OrderSpec == OrderInit /\ [][OrderNext]_vars

(***************************************************************************)
(* Properties of the ordering                                              *)
(***************************************************************************)
\* the nodes a connection path of one or more connections leads to from S
RECURSIVE ReachedFrom(_, _)
ReachedFrom(g, S) ==
    LET more == S \cup {e.destination_id : e \in {c \in g.connections : c.origin_id \in S}}
    IN  IF more = S THEN S ELSE ReachedFrom(g, more)

\* a connection path leads from some node back to it
HasCycle(g) ==
    \E e \in g.connections : e.origin_id \in ReachedFrom(g, {e.destination_id})

\* the place of the node in the listed steps, 0 when it is not listed
PlaceOf(tool_id) ==
    IF \E k \in 1..Len(steps.lines) : steps.lines[k].tool_id = tool_id
    THEN CHOOSE k \in 1..Len(steps.lines) : steps.lines[k].tool_id = tool_id
    ELSE 0

\* q orders every node once, origins before destinations, and of two nodes
\* the one with the higher identifier comes first only if the other still
\* waits for a node at that moment
IsTopologicalById(g, q) ==
    /\ \A x \in GraphIds(g) : Cardinality({k \in 1..Len(q) : q[k] = x}) = 1
    /\ Len(q) = Cardinality(GraphIds(g))
    /\ \A e \in g.connections :
          \E i, j \in 1..Len(q) : i < j /\ q[i] = e.origin_id /\ q[j] = e.destination_id
    /\ \A i, j \in 1..Len(q) :
          (i < j /\ q[i] > q[j])
             => \E e \in g.connections :
                   /\ e.destination_id = q[j]
                   /\ \A k \in 1..(i - 1) : q[k] # e.origin_id

\* C22: for an acyclic graph the listing has one step per node, the origin of
\* every connection before its destination, the lower identifier first among
\* nodes ready together, and strictly increasing sequence numbers; it is the
\* only sequence of the nodes with these properties
C22_TopologicalByIdentifier ==
    (steps.status # "none" /\ ~HasCycle(graph)) =>
        /\ steps.status = "ok"
        /\ IsTopologicalById(graph, [k \in 1..Len(steps.lines) |-> steps.lines[k].tool_id])
        /\ \A k \in 1..(Len(steps.lines) - 1) :
              steps.lines[k].order < steps.lines[k + 1].order
        /\ \A q \in [1..Len(graph.nodes) -> GraphIds(graph)] :
              IsTopologicalById(graph, q)
                 => q = [k \in 1..Len(steps.lines) |-> steps.lines[k].tool_id]

\* the nodes declared in the order 3, 2, 1 with the connections 1 -> 3 and
\* 1 -> 2 were listed: 1, then 2 and 3, which are ready together, by identifier
C22_Witness ==
    /\ steps.status = "ok"
    /\ Len(graph.nodes) = 3
    /\ graph.nodes[1].tool_id = 3 /\ graph.nodes[2].tool_id = 2
    /\ graph.connections = {Edge(1, 3), Edge(1, 2)}
    /\ PlaceOf(1) = 1 /\ PlaceOf(2) = 2 /\ PlaceOf(3) = 3
    /\ steps.lines[3].order = 3

\* C23: when a connection path leads from a node back to it, the listing
\* fails with CyclicDependency, no step is listed, and the nodes and
\* connections of the graph are after the failed call what they were before
C23_CycleFailsGraphKept ==
    [][(steps.status = "none" /\ steps'.status # "none" /\ HasCycle(graph))
          => /\ steps'.status = "CyclicDependency"
             /\ "lines" \notin DOMAIN steps'
             /\ graph'.nodes = graph.nodes
             /\ graph'.connections = graph.connections]_vars

\* the graph 1 -> 2, 2 -> 3, 3 -> 1 was handed to the listing, which failed
C23_Witness ==
    /\ steps.status = "CyclicDependency"
    /\ Len(graph.nodes) = 3
    /\ graph.connections = {Edge(1, 2), Edge(2, 3), Edge(3, 1)}

(***************************************************************************)
(* MacroInventory: the macros of a run and the workflows that use them.    *)
(* A dict is kept as the sequence of its items, in insertion order.        *)
(***************************************************************************)
\* add_macro calls of one run
MaxAdds == 3

\* the names of the workflows of a run
WorkflowNames == {"W1", "W2"}

\* the MacroInfo records handed to add_macro: what resolve_macros returns
\* for a reference, found at some path or not found
InventoryInfos ==
    { [NewMacroInfo(ref) EXCEPT !.found = found,
                                !.resolved_path = IF found THEN Ext \o << Name(ref.parts) >>
                                                  ELSE NoPath] :
        ref \in {RefB, RefLibB, RefC}, found \in BOOLEAN }

\* key in d
DictHas(items, key) == \E i \in 1..Len(items) : items[i].key = key

\* d[key]
DictGet(items, key) == items[CHOOSE i \in 1..Len(items) : items[i].key = key].value

\* MacroInventory.__init__
NewInventory == [status |-> "ok", macros |-> << >>, usage |-> << >>, calls |-> 0]

\* an add that stores the record it was handed also over an older one
AddMacroReplacing(inv, macro_info, workflow_name) ==
    LET key == macro_info.name
        usage == IF ~DictHas(inv.macros, key) THEN DictSet(inv.usage, key, << >>)
                 ELSE inv.usage
    IN  [inv EXCEPT !.macros = DictSet(inv.macros, key, macro_info),
                    !.usage = DictSet(usage, key, Append(DictGet(usage, key), workflow_name))]

\* MacroInventory.add_macro
AddMacro(inv, macro_info, workflow_name) ==
    LET key == macro_info.name
        fresh == ~DictHas(inv.macros, key)
        macros == IF fresh THEN DictSet(inv.macros, key, macro_info) ELSE inv.macros
        usage == IF fresh THEN DictSet(inv.usage, key, << >>) ELSE inv.usage
    IN  [inv EXCEPT !.macros = macros,
                    !.usage = DictSet(usage, key, Append(DictGet(usage, key), workflow_name))]

\* MacroInventory.get_shared_macros
GetSharedMacros(inv) ==
    LET several == SelectSeq(inv.usage, LAMBDA item : Len(item.value) > 1)
    IN  [i \in 1..Len(several) |-> DictGet(inv.macros, several[i].key)]

\* MacroInventory.get_missing_macros
GetMissingMacros(inv) ==
    LET missing == SelectSeq(inv.macros, LAMBDA item : ~item.value.found)
    IN  [i \in 1..Len(missing) |-> missing[i].value]

\* MacroInventory.get_summary
GetSummary(inv) ==
    [total_macros |-> Len(inv.macros),
     found |-> Len(SelectSeq(inv.macros, LAMBDA item : item.value.found)),
     missing |-> Len(SelectSeq(inv.macros, LAMBDA item : ~item.value.found)),
     shared |-> Len(GetSharedMacros(inv)),
     usage |-> [i \in 1..Len(inv.usage) |->
                  [key |-> inv.usage[i].key, value |-> Len(inv.usage[i].value)]]]

InventoryInit ==
    /\ inventory = NewInventory
    /\ steps = NotOrdered
    /\ dbt = NoDbt
    /\ sanitized = NotSanitized
    /\ graph = NoGraph
    /\ medallion = NotAnalyzed
    /\ document = NoDocument
    /\ parsed = NotParsed
    /\ NoResolver

\* inventory.add_macro(macro_info, workflow_name)
AddMacroCall(macro_info, workflow_name) ==
    /\ inventory.status = "ok"
    /\ inventory.calls < MaxAdds
    /\ inventory' = [AddMacro(inventory, macro_info, workflow_name)
                       EXCEPT !.calls = inventory.calls + 1]
    /\ UNCHANGED << steps, dbt, sanitized, analyzerVars, ingestVars, resolverVars >>

InventoryNext ==
    \E macro_info \in InventoryInfos, workflow_name \in WorkflowNames :
        AddMacroCall(macro_info, workflow_name)

InventorySpec == InventoryInit /\ [][InventoryNext]_vars

(***************************************************************************)
(* Properties of the inventory                                             *)
(***************************************************************************)
\* the keys of a dict
Keys(items) == {items[i].key : i \in 1..Len(items)}

\* the names of the macros get_shared_macros returns
SharedNames == {GetSharedMacros(inventory)[i].name :
                   i \in 1..Len(GetSharedMacros(inventory))}

\* the workflows the macro was added for
UsedBy(name) == Range(DictGet(inventory.usage, name))

\* C24: get_shared_macros returns exactly the macros added for two or more
\* distinct workflows; a macro added several times for one workflow only is
\* not returned
C24_SharedByDistinctWorkflows ==
    inventory.status = "ok" =>
        SharedNames = {name \in Keys(inventory.usage) : Cardinality(UsedBy(name)) >= 2}

\* after any add_macro calls the two tables have the same keys, no usage
\* list is empty, and the counts of get_summary add up
InventoryConsistent ==
    inventory.status = "ok" =>
        /\ Keys(inventory.macros) = Keys(inventory.usage)
        /\ \A i \in 1..Len(inventory.usage) : Len(inventory.usage[i].value) >= 1
        /\ \A i, j \in 1..Len(inventory.macros) :
              inventory.macros[i].key = inventory.macros[j].key => i = j
        /\ LET summary == GetSummary(inventory)
           IN  /\ summary.found + summary.missing = summary.total_macros
               /\ summary.shared <= summary.total_macros
               /\ summary.total_macros = Cardinality(Keys(inventory.macros))

\* an add for a name the macro table holds leaves the record of the name as
\* it was and makes the usage list of the name one longer
EntryKept ==
    \A name \in Keys(inventory.macros) :
        /\ DictHas(inventory'.macros, name)
        /\ DictGet(inventory'.macros, name) = DictGet(inventory.macros, name)
        /\ Len(DictGet(inventory'.usage, name)) >= Len(DictGet(inventory.usage, name))

\* C28: after any sequence of add_macro calls the macro table and the usage
\* table have the same keys, every usage list is non-empty, found + missing
\* = total_macros and shared <= total_macros in get_summary, and no add
\* replaces an entry the macro table already holds
C28_InventoryInvariants ==
    /\ []InventoryConsistent
    /\ [][inventory.status = "ok" => EntryKept]_vars

\* B.yxmc was added, found under the reference B.yxmc, for W1 and then once
\* more for W2: the table holds the first record, the summary counts one
\* macro, found, shared
C28_Witness ==
    /\ inventory.status = "ok"
    /\ inventory.calls = 2
    /\ Keys(inventory.macros) = {"B.yxmc"}
    /\ DictGet(inventory.macros, "B.yxmc").found
    /\ DictGet(inventory.macros, "B.yxmc").file_path = RefB
    /\ DictGet(inventory.usage, "B.yxmc") = << "W1", "W2" >>
    /\ GetSummary(inventory).found = 1
    /\ GetSummary(inventory).missing = 0
    /\ GetSummary(inventory).shared = 1

(***************************************************************************)
(* The missing list of a workflow over several resolve_macros calls        *)
(***************************************************************************)
\* W1 with two macro nodes, which refer to the same macro or to two
RepeatShapes1 ==
    { << MacroNode(1, RefB), MacroNode(2, RefB) >>,
      << MacroNode(1, RefB), MacroNode(2, RefC) >> }

RepeatInit == InitOf(RepeatShapes1, DocShapes2)

RepeatSpec == RepeatInit /\ [][Next]_vars

\* the number of entries of seq that are x
Count(x, seq) == Cardinality({k \in 1..Len(seq) : seq[k] = x})

\* C25: after any sequence of resolve_macros calls on a workflow its missing
\* list holds each reference at most once, every entry is a reference of the
\* workflow, and no reference is in the list and reported found by the
\* latest call
C25_MissingListIsSet ==
    pc = "idle" =>
        \A w \in Docs :
            LET missing == workflows[w].missing_macros IN
            /\ \A ref \in Refs : Count(ref, missing) <= 1
            /\ \A k \in 1..Len(missing) : InSeq(missing[k], workflows[w].macros_used)
            /\ \A ref \in Refs : ~(InSeq(ref, missing) /\ Found(w, ref))

(***************************************************************************)
(* What a found reference and a cache entry point to                       *)
(***************************************************************************)
\* the step ends a resolve_macros(w) call, with or without prompts
CallEnds(w) ==
    /\ pc' = "idle"
    /\ \/ pc = "idle" /\ ncalls'[w] = ncalls[w] + 1
       \/ pc = "prompt" /\ cur.w = w

\* C26: whenever a reference is reported found its resolved path names a
\* regular file that exists at that moment; a cache entry points to such a
\* file when it is written; and a cache entry whose file no longer exists is
\* not returned as found but makes the resolution search again
C26_FoundIsExistingFile ==
    [][/\ \A w \in Docs :
            CallEnds(w) =>
               \A ref \in DOMAIN report'[w] :
                  report'[w][ref].found => IsFile(files', report'[w][ref].resolved_path)
       /\ \A ref \in Refs :
            resolved_paths'[ref] # resolved_paths[ref]
               => IsFile(files', resolved_paths'[ref])
       /\ \A w \in Docs : \A ref \in Refs :
            (/\ Resolves(w, ref)
             /\ resolved_paths[ref] # NoPath
             /\ ~Exists(files, resolved_paths[ref]))
               => /\ search_count'[ref] > search_count[ref]
                  /\ report'[w][ref].found
                        => report'[w][ref].resolved_path # resolved_paths[ref]]_vars

(***************************************************************************)
(* Batch mode                                                              *)
(***************************************************************************)
\* the step starts a resolve_macros call
CallStarts == \E w \in Docs : ncalls'[w] = ncalls[w] + 1

\* C27: a resolve_macros call of a resolver that is not interactive, or
\* whose skip_all is set, returns without a prompt and leaves the search
\* directories, the skip set and skip_all as they were; skip_all, once set,
\* stays set, and from then on no reference is prompted for
C27_BatchFrame ==
    [][/\ (CallStarts /\ (~interactive \/ skip_all))
             => /\ pc' = "idle"
                /\ search_directories' = search_directories
                /\ skip_macros' = skip_macros
                /\ skip_all' = skip_all
       /\ skip_all => (skip_all' /\ pc' = "idle")
       /\ (~skip_all /\ skip_all') => (pc = "prompt" /\ CurRef \in skip_answered')]_vars

\* the one call on W1, interactive, asked for B.yxmc and was answered
\* SkipAll; C.yxmc, the next reference, was then recorded missing without a
\* prompt and without entering the skip set
C27_Witness ==
    /\ interactive /\ skip_all
    /\ pc = "idle"
    /\ ncalls["W1"] = 1 /\ ncalls["W2"] = 0
    /\ workflows["W1"].macros_used = << RefB, RefC >>
    /\ skip_macros = {RefB}
    /\ workflows["W1"].missing_macros = << RefB, RefC >>
    /\ RefC \in DOMAIN report["W1"] /\ ~report["W1"][RefC].found

(***************************************************************************)
(* DBTGenerator: the models of one workflow and the models they refer to.  *)
(*                                                                         *)
(* A model name is kept as the parts its f-string joins with "_": the      *)
(* layer prefix, the workflow prefix and the name of the node or table.    *)
(***************************************************************************)
\* self._sanitize_name(workflow.metadata.name) of the generated workflow
WorkflowPrefix == "wf"

\* the identifiers of S in ascending order
RECURSIVE Ascending(_)
Ascending(S) ==
    IF S = {} THEN << >>
    ELSE LET x == MinId(S) IN << x >> \o Ascending(S \ {x})

\* AlteryxWorkflow.get_upstream_nodes: the nodes with a connection into the
\* node
GetUpstreamNodes(g, tool_id) ==
    LET ids == Ascending(Upstream(g, tool_id) \cap GraphIds(g))
    IN  [k \in 1..Len(ids) |-> NodeWithId(g, ids[k])]

\* self._sanitize_name(node.get_display_name()): the label of the node, which
\* tells the nodes of a workflow apart
SanitizedDisplayName(node) == << node.plugin_name, node.tool_id >>

\* _get_table_name on a node without table_name and source_path, as the
\* nodes of these workflows are: f"source_{node.tool_id}"
GetTableName(node) == << "source", node.tool_id >>

ModelName(prefix, workflow_prefix, name) ==
    [prefix |-> prefix, workflow_prefix |-> workflow_prefix, name |-> name]

\* _generate_staging_model: f"stg_{workflow_prefix}_{table}"
StagingModelName(node, workflow_prefix) ==
    ModelName("stg", workflow_prefix, GetTableName(node))

\* _generate_intermediate_model: f"int_{workflow_prefix}_{...}"
IntermediateModelName(node, workflow_prefix) ==
    ModelName("int", workflow_prefix, SanitizedDisplayName(node))

\* _generate_mart_model: a fact for a Summarize or a node with aggregations,
\* a dimension otherwise
MartModelName(node, workflow_prefix) ==
    ModelName(IF node.plugin_name = "Summarize" \/ node.aggregations # << >>
                THEN "fct" ELSE "dim",
              workflow_prefix, SanitizedDisplayName(node))

\* _get_model_reference
GetModelReference(node, workflow_prefix) ==
    IF node.category = "INPUT"
      THEN ModelName("stg", workflow_prefix, GetTableName(node))
      ELSE ModelName("int", workflow_prefix, SanitizedDisplayName(node))

\* the ref('...') lines of the model of a node: one for every upstream node
ModelRefs(g, node, workflow_prefix) ==
    LET upstream == GetUpstreamNodes(g, node.tool_id)
    IN  [i \in 1..Len(upstream) |->
           [tool_id |-> upstream[i].tool_id,
            ref |-> GetModelReference(upstream[i], workflow_prefix)]]

\* one generated model: its name, the node it was generated for, its refs
Model(name, node, refs) == [name |-> name, tool_id |-> node.tool_id, refs |-> refs]

\* DBTGenerator.__init__
NewDbt == [status |-> "new", models_generated |-> << >>, models |-> << >>]

DbtInit ==
    /\ \E n \in 0..MaxGraphNodes : graph \in GraphsOf(n)
    /\ dbt = NewDbt
    /\ medallion = NotAnalyzed
    /\ steps = NotOrdered
    /\ inventory = NoInventory
    /\ sanitized = NotSanitized
    /\ document = NoDocument
    /\ parsed = NotParsed
    /\ NoResolver

\* _generate_workflow_models: the staging models of the bronze inputs, the
\* intermediate models of the silver nodes, the mart models of the gold nodes
GenerateWorkflowModels ==
    /\ dbt.status = "new"
    /\ LET mapping == SuggestMedallionMapping(graph)
           bronze_nodes == SelectSeq(LayerNodes(mapping, "bronze"),
                                     LAMBDA node : node.category = "INPUT")
           silver_nodes == LayerNodes(mapping, "silver")
           gold_nodes == LayerNodes(mapping, "gold")
           staging == [i \in 1..Len(bronze_nodes) |->
                         Model(StagingModelName(bronze_nodes[i], WorkflowPrefix),
                               bronze_nodes[i], << >>)]
           intermediate == [i \in 1..Len(silver_nodes) |->
                              Model(IntermediateModelName(silver_nodes[i], WorkflowPrefix),
                                    silver_nodes[i],
                                    ModelRefs(graph, silver_nodes[i], WorkflowPrefix))]
           marts == [i \in 1..Len(gold_nodes) |->
                       Model(MartModelName(gold_nodes[i], WorkflowPrefix),
                             gold_nodes[i],
                             ModelRefs(graph, gold_nodes[i], WorkflowPrefix))]
           models == staging \o intermediate \o marts
       IN  dbt' = [status |-> "ok",
                   models_generated |-> [i \in 1..Len(models) |-> models[i].name],
                   models |-> models]
    /\ UNCHANGED << graph, medallion, steps, inventory, sanitized,
                    ingestVars, resolverVars >>

DbtNext == GenerateWorkflowModels

DbtSpec == DbtInit /\ [][DbtNext]_vars

(***************************************************************************)
(* Properties of the generated models                                      *)
(***************************************************************************)
\* C29: every ref('...') written into a generated intermediate or mart model
\* names a model of models_generated that the run generated for the upstream
\* node the ref stands for, whatever the layer of that node
C29_RefsAreGenerated ==
    dbt.status = "ok" =>
        \A m \in 1..Len(dbt.models) :
            \A r \in 1..Len(dbt.models[m].refs) :
                LET ref == dbt.models[m].refs[r] IN
                /\ InSeq(ref.ref, dbt.models_generated)
                /\ \E k \in 1..Len(dbt.models) :
                      /\ dbt.models[k].name = ref.ref
                      /\ dbt.models[k].tool_id = ref.tool_id

(***************************************************************************)
(* _sanitize_name of the DBT and of the documentation generator.  A string *)
(* is the sequence of its characters.                                      *)
(***************************************************************************)
\* characters after the long run of a name
MaxTail == 3

\* if len(sanitized) > 50: sanitized = sanitized[:50]
NameLimit == 50

LowerLetters ==
    << "a", "b", "c", "d", "e", "f", "g", "h", "i", "j", "k", "l",
       "m", "n", "o", "p", "q", "r", "s", "t", "u", "v", "w", "x",
       "y", "z" >>

UpperLetters ==
    << "A", "B", "C", "D", "E", "F", "G", "H", "I", "J", "K", "L",
       "M", "N", "O", "P", "Q", "R", "S", "T", "U", "V", "W", "X",
       "Y", "Z" >>

Digits == { "0", "1", "2", "3", "4", "5", "6", "7", "8", "9" }

\* the characters the pattern [^a-zA-Z0-9_] leaves alone
IsWordChar(c) == c \in Range(LowerLetters) \cup Range(UpperLetters) \cup Digits \cup {"_"}

\* str.lower() on one character of a sanitized name
LowerChar(c) ==
    IF \E i \in 1..Len(UpperLetters) : UpperLetters[i] = c
      THEN LowerLetters[CHOOSE i \in 1..Len(UpperLetters) : UpperLetters[i] = c]
      ELSE c

\* re.sub(r'[^a-zA-Z0-9_]', '_', name)
ReplaceSpecial(name) ==
    [i \in 1..Len(name) |-> IF IsWordChar(name[i]) THEN name[i] ELSE "_"]

\* re.sub(r'_+', '_', name)
RECURSIVE CollapseUnderscores(_)
CollapseUnderscores(name) ==
    IF Len(name) < 2 THEN name
    ELSE IF name[1] = "_" /\ name[2] = "_" THEN CollapseUnderscores(Tail(name))
    ELSE << name[1] >> \o CollapseUnderscores(Tail(name))

RECURSIVE StripLeft(_)
StripLeft(name) ==
    IF name # << >> /\ name[1] = "_" THEN StripLeft(Tail(name)) ELSE name

RECURSIVE StripRight(_)
StripRight(name) ==
    IF name # << >> /\ name[Len(name)] = "_"
      THEN StripRight(SubSeq(name, 1, Len(name) - 1)) ELSE name

\* name.strip('_')
StripUnderscores(name) == StripRight(StripLeft(name))

\* name.lower()
Lower(name) == [i \in 1..Len(name) |-> LowerChar(name[i])]

\* sanitized[:50] when the name is longer
Truncate(name) == IF Len(name) > NameLimit THEN SubSeq(name, 1, NameLimit) ELSE name

Unknown == << "u", "n", "k", "n", "o", "w", "n" >>

\* DBTGenerator._sanitize_name
DbtSanitizeName(name) ==
    IF name = << >> THEN Unknown
    ELSE LET result ==
                Truncate(Lower(StripUnderscores(CollapseUnderscores(ReplaceSpecial(name)))))
         IN  IF result = << >> THEN Unknown ELSE result

\* DocumentationGenerator._sanitize_name
DocSanitizeName(name) ==
    LET result ==
           Truncate(Lower(StripUnderscores(CollapseUnderscores(ReplaceSpecial(name)))))
    IN  IF result = << >> THEN Unknown ELSE result

\* the characters the sanitized names are made of: a lower and an upper
\* case letter, a digit, the underscore and two characters the pattern
\* replaces
NameChars == { "a", "B", "7", "_", " ", "-" }

\* the strings of n characters
StringsOf(n) == [1..n -> NameChars]

\* a run of k letters
Run(k) == [i \in 1..k |-> "x"]

\* the lengths of the run a name starts with: none, or one that brings the
\* name to the limit
RunLengths == {0} \cup ((NameLimit - MaxTail)..NameLimit)

SanitizeInit ==
    /\ \E k \in RunLengths, n \in 0..MaxTail :
          \E tail \in StringsOf(n) :
              sanitized = [status |-> "name", name |-> Run(k) \o tail]
    /\ steps = NotOrdered
    /\ inventory = NoInventory
    /\ dbt = NoDbt
    /\ graph = NoGraph
    /\ medallion = NotAnalyzed
    /\ document = NoDocument
    /\ parsed = NotParsed
    /\ NoResolver

\* both generators sanitize the name
SanitizeName ==
    /\ sanitized.status = "name"
    /\ sanitized' = [status |-> "ok", name |-> sanitized.name,
                     dbt |-> DbtSanitizeName(sanitized.name),
                     doc |-> DocSanitizeName(sanitized.name)]
    /\ UNCHANGED << steps, inventory, dbt, analyzerVars, ingestVars, resolverVars >>

SanitizeNext == SanitizeName

SanitizeSpec == SanitizeInit /\ [][SanitizeNext]_vars

(***************************************************************************)
(* Properties of the sanitized names                                       *)
(***************************************************************************)
\* C30: sanitizing the result of _sanitize_name again returns it unchanged:
\* the result is non-empty, at most 50 characters of [a-z0-9_], and neither
\* starts nor ends with an underscore; and the DBT and the documentation
\* generator give the same result for every non-empty name
C30_SanitizeIdempotent ==
    sanitized.status = "ok" =>
        LET once == sanitized.dbt IN
        /\ DbtSanitizeName(once) = once
        /\ DocSanitizeName(sanitized.doc) = sanitized.doc
        /\ once # << >>
        /\ Len(once) <= NameLimit
        /\ \A i \in 1..Len(once) :
              once[i] \in Range(LowerLetters) \cup Digits \cup {"_"}
        /\ once[1] # "_"
        /\ once[Len(once)] # "_"
        /\ sanitized.name # << >> => sanitized.doc = once

====
